---- MODULE Spec2Model ----
(***************************************************************************)
(* State-machine model of the Ankita PubSub message broker:                *)
(*   MessageBroker (src/src/pubsub/broker.ts),                             *)
(*   MessageQueue  (src/src/pubsub/queue.ts),                              *)
(*   TopicManager  (src/unnamed/part_003, imported as ./topic).            *)
(*                                                                         *)
(* JavaScript runs every broker method to completion on one thread, so a   *)
(* method is one action.  The only loop whose length depends on what the   *)
(* subscriber's sink does is drainQueue; it is modelled one iteration per  *)
(* step under the control of pc, and no other method runs while a drain is *)
(* in progress.                                                            *)
(*                                                                         *)
(* "undefined" is modelled by the falsy value of the field's type (0 for   *)
(* numbers, "" for strings) wherever the code only tests truthiness, and   *)
(* by the absence of the record field where the code spreads objects.      *)
(***************************************************************************)
EXTENDS Integers, Sequences, FiniteSets, TLC

----------------------------------------------------------------------------
(* Bounds of the model *)

MaxPublish == 3
MaxSubscribers == 2
MaxRequests == 1
MaxThrows == 2
MaxTicks == 2
TickMs == 1000
MaxOps == 6
MaxQueueCap == 2
MaxDeadLetterCap == 2
MaxMembers == 3
MaxKeys == 1
MaxRateLimit == 2
MaxNacks == 6
MaxBackoffMessages == 2

(* Program constants *)

QueueMaxSize == 10000
DeadLetterMaxSize == 1000
FallbackMaxRetries == 3
BackoffBaseMs == 1000
BackoffCapMs == 60000
DefaultTopicMaxQueueSize == 1000
DefaultTopicMaxRetries == 3
DefaultMessageRetention == 3600000
MaxHistory == 1000
DefaultHistoryLimit == 100
DefaultRateMaxRequests == 1000
DefaultRateWindowMs == 60000

(* Inputs *)

UserTopics == {"t1"}
Hash == "#"

\* a name with a character outside the allowed set (a space)
InvalidTopicNames == {"bad topic"}

\* the clock runs from 0 to MaxTime in steps of TickMs
MaxTime == MaxTicks * TickMs
TtlMs == TickMs
RequestTimeoutMs == 2 * TickMs
NackReason == "nack"
OverflowReason == "Queue overflow - message evicted"
SubIds == 1..MaxSubscribers
CorrIds == 1..MaxRequests

\* Partial<TopicConfig> values offered to createTopic
EmptyConfig == [k \in {} |-> 0]
CustomConfig == [maxQueueSize |-> 2, maxRetries |-> 1]
\* a topic that keeps its history for one tick of the clock
RetentionConfig == [messageRetention |-> TickMs]

\* the options offered to createApiKey: none, a rate limit of m requests a
\* tick (0 is falsy and gives the default), and a key that expires as well
NoKeyOptions == [k \in {} |-> 0]
RateLimitOptions ==
  {[rateLimit |-> [maxRequests |-> m, windowMs |-> TickMs]] : m \in 0..MaxRateLimit}
ExpiringOptions ==
  {[expiresIn |-> 2 * TickMs, rateLimit |-> [maxRequests |-> 1, windowMs |-> TickMs]]}
KeyOptions == {NoKeyOptions} \cup RateLimitOptions \cup ExpiringOptions

\* headers offered to publish; none is options.headers undefined
NoHeaders == [k \in {} |-> ""]

\* "p1" and "p2" are string payloads; these names stand for object payloads
\* with the own properties given here
MappingPayloads ==
  [mKindA |-> [kind |-> "a"], mKindB |-> [kind |-> "b"], mSizeOnly |-> [size |-> "a"]]

\* (payload, headers) pairs offered to publish
FilterPublishInputs ==
  {[payload |-> "p1", headers |-> [region |-> "eu"]],
   [payload |-> "mKindA", headers |-> [region |-> "eu"]],
   [payload |-> "mKindB", headers |-> [region |-> "us"]],
   [payload |-> "mSizeOnly", headers |-> NoHeaders]}

\* a header pattern is a string or a RegExp; a RegExp is given by the header
\* values in use that it accepts
StringPattern(value) == [kind |-> "string", value |-> value]
RegExpPattern(accepted) == [kind |-> "regexp", accepted |-> accepted]

\* subscribe called without a filter
NoFilter == [k \in {} |-> 0]

\* MessageFilter values offered to subscribe; the RegExp is /^e/
Filters ==
  {[headers |-> [region |-> StringPattern("eu")]],
   [payload |-> [kind |-> "a"]],
   [headers |-> [region |-> RegExpPattern({"eu"})], payload |-> [kind |-> "a"]]}

\* (clientId, topics) pairs offered to subscribe
SubscribeInputs ==
  {[clientId |-> "cliA", topics |-> <<"t1">>],
   [clientId |-> "cliB", topics |-> <<Hash>>],
   [clientId |-> "cliB", topics |-> <<"t1", Hash>>]}

\* (payload, publisherId, ttl) triples offered to publish
PublishInputs ==
  {[payload |-> "p1", publisherId |-> "cliA", ttl |-> 0],
   [payload |-> "p2", publisherId |-> "cliB", ttl |-> TtlMs]}

----------------------------------------------------------------------------
VARIABLES
  topics,            \* TopicManager.topics: name -> Topic (config, subscriberCount)
  topicSubscribers,  \* TopicManager.topicSubscribers: name -> insertion-ordered set
  subscribers,       \* MessageBroker.subscribers: id -> Subscriber
  messageCallbacks,  \* MessageBroker.messageCallbacks: id -> sink
  queues,            \* MessageQueue.queues: id -> QueuedMessage[]
  deadLetterQueue,   \* MessageQueue.deadLetterQueue
  pendingRequests,   \* MessageBroker.pendingRequests: correlationId -> PendingRequest
  timers,            \* armed setTimeout handles of request(): correlationId -> deadline
  promises,          \* the Promise of each request() and the closure it captured
  now,               \* Date.now()
  nextMsgId,         \* generateId() for messages: a fresh id each call
  nextSubId,         \* generateId() for subscribers
  nextCorrId,        \* generateId() for correlation ids
  sinkLog,           \* per subscriber: the calls its sink has received
  published,         \* the messages returned by publish(), in order
  throwsUsed,        \* number of sink calls that threw so far
  ops,               \* number of methods called so far
  ghost,             \* history kept for the properties only
  groups,            \* ConsumerGroupManager.groups: name -> ConsumerGroup
  memberToGroup,     \* ConsumerGroupManager.memberToGroup: subscriberId -> group name
  roundRobinIndex,   \* ConsumerGroupManager.roundRobinIndex: group name -> counter
  returned,          \* what the last method call returned or threw, where the properties read it
  messageHistory,    \* TopicManager.messageHistory: topic -> messages, oldest first
  eventHandlers,     \* MessageBroker.eventHandlers, in insertion order
  handlerLog,        \* per event handler: the events it has been called with
  maxQueueSize,      \* MessageQueue.maxQueueSize
  maxDeadLetterSize, \* MessageQueue.maxDeadLetterSize
  apiKeys,           \* AuthManager.apiKeys: key -> ApiKey
  keysByClientId,    \* AuthManager.keysByClientId: clientId -> key
  nextKeyId,         \* generateApiKey(): a fresh key each call
  stickyAssignments, \* ConsumerGroupManager.stickyAssignments: sticky key -> subscriberId
  pc                 \* position of the running drainQueue loop, if any

vars == <<topics, topicSubscribers, subscribers, messageCallbacks, queues,
          deadLetterQueue, pendingRequests, timers, promises, now, nextMsgId,
          nextSubId, nextCorrId, sinkLog, published, throwsUsed, ops,
          ghost, groups, memberToGroup, roundRobinIndex, returned, messageHistory, eventHandlers, handlerLog, maxQueueSize, maxDeadLetterSize, apiKeys, keysByClientId, nextKeyId, stickyAssignments, pc>>

\* The whole state as one record, so that the methods below are functions
\* from state to state and can call each other as in the code.
World ==
  [topics |-> topics, topicSubscribers |-> topicSubscribers,
   subscribers |-> subscribers, messageCallbacks |-> messageCallbacks,
   queues |-> queues, deadLetterQueue |-> deadLetterQueue,
   pendingRequests |-> pendingRequests, timers |-> timers,
   promises |-> promises, now |-> now, nextMsgId |-> nextMsgId,
   nextSubId |-> nextSubId, nextCorrId |-> nextCorrId, sinkLog |-> sinkLog,
   published |-> published, throwsUsed |-> throwsUsed, groups |-> groups,
   memberToGroup |-> memberToGroup,
   roundRobinIndex |-> roundRobinIndex,
   messageHistory |-> messageHistory,
   eventHandlers |-> eventHandlers,
   handlerLog |-> handlerLog,
   maxQueueSize |-> maxQueueSize,
   maxDeadLetterSize |-> maxDeadLetterSize,
   apiKeys |-> apiKeys,
   keysByClientId |-> keysByClientId,
   nextKeyId |-> nextKeyId,
   stickyAssignments |-> stickyAssignments,
   pc |-> pc]

Commit(w) ==
  /\ topics' = w.topics
  /\ topicSubscribers' = w.topicSubscribers
  /\ subscribers' = w.subscribers
  /\ messageCallbacks' = w.messageCallbacks
  /\ queues' = w.queues
  /\ deadLetterQueue' = w.deadLetterQueue
  /\ pendingRequests' = w.pendingRequests
  /\ timers' = w.timers
  /\ promises' = w.promises
  /\ now' = w.now
  /\ nextMsgId' = w.nextMsgId
  /\ nextSubId' = w.nextSubId
  /\ nextCorrId' = w.nextCorrId
  /\ sinkLog' = w.sinkLog
  /\ published' = w.published
  /\ throwsUsed' = w.throwsUsed
  /\ groups' = w.groups
  /\ memberToGroup' = w.memberToGroup
  /\ roundRobinIndex' = w.roundRobinIndex
  /\ messageHistory' = w.messageHistory
  /\ eventHandlers' = w.eventHandlers
  /\ handlerLog' = w.handlerLog
  /\ maxQueueSize' = w.maxQueueSize
  /\ maxDeadLetterSize' = w.maxDeadLetterSize
  /\ apiKeys' = w.apiKeys
  /\ keysByClientId' = w.keysByClientId
  /\ nextKeyId' = w.nextKeyId
  /\ stickyAssignments' = w.stickyAssignments
  /\ pc' = w.pc

\* base and ready remember, for the properties, the length of the sink log
\* and the ids ready for delivery when the running drain began
Idle == [op |-> "idle", sub |-> 0, base |-> 0, ready |-> <<>>]

NoReturn == [kind |-> "none"]

\* a boolean result
Returns(v) == [kind |-> "boolean", flag |-> v]

\* a numeric result, or a subscriber id with 0 for null
ReturnsNumber(n) == [kind |-> "number", number |-> n]

Throws(e) == [kind |-> "error", error |-> e]

\* a Topic result, by its name
ReturnsTopic(name) == [kind |-> "topic", name |-> name]

\* a list of messages
ReturnsList(messages) == [kind |-> "list", list |-> messages]

\* an AuthResult
ReturnsAuth(result) == [kind |-> "auth", auth |-> result]

\* a method may be called: no drain is running, and the run is not over
CanCall == pc = Idle /\ ops < MaxOps

\* the state a method call leaves behind
Call(w) ==
  Commit(w) /\ ops' = ops + 1 /\ returned' = NoReturn /\ UNCHANGED ghost

CallG(w, g) ==
  Commit(w) /\ ops' = ops + 1 /\ returned' = NoReturn /\ ghost' = g

\* a call whose return value r, or thrown error r, the properties read
CallR(w, r) == Commit(w) /\ ops' = ops + 1 /\ returned' = r /\ UNCHANGED ghost

CallRG(w, r, g) == Commit(w) /\ ops' = ops + 1 /\ returned' = r /\ ghost' = g

----------------------------------------------------------------------------
(* Helpers for Map, Set and Array *)

MapDelete(f, k) == [x \in (DOMAIN f) \ {k} |-> f[x]]

MapSet(f, k, v) == [x \in (DOMAIN f) \cup {k} |-> IF x = k THEN v ELSE f[x]]

Has(f, k) == k \in DOMAIN f

SeqContains(s, e) == \E i \in 1..Len(s) : s[i] = e

SeqRemoveAt(s, i) == SubSeq(s, 1, i - 1) \o SubSeq(s, i + 1, Len(s))

SeqDelete(s, e) == SelectSeq(s, LAMBDA x : x # e)

\* Array.findIndex: 1-based index of the first element satisfying P, 0 if none
FindIndex(s, P(_)) ==
  IF \E i \in 1..Len(s) : P(s[i])
  THEN CHOOSE i \in 1..Len(s) : P(s[i]) /\ \A j \in 1..(i - 1) : ~P(s[j])
  ELSE 0

\* new Set([...a, ...b]) in iteration order
RECURSIVE Dedup(_)
Dedup(s) ==
  IF s = <<>> THEN <<>>
  ELSE LET r == Dedup(SubSeq(s, 1, Len(s) - 1))
           e == s[Len(s)]
       IN IF SeqContains(r, e) THEN r ELSE Append(r, e)

SeqToSet(s) == {s[i] : i \in 1..Len(s)}

RECURSIVE Pow2(_)
Pow2(n) == IF n <= 0 THEN 1 ELSE 2 * Pow2(n - 1)

Min(a, b) == IF a <= b THEN a ELSE b

Max(a, b) == IF a >= b THEN a ELSE b

\* Array.prototype.slice(start) with no end: a negative start counts from
\* the end, and -0 is 0
JsSlice(s, start) ==
  LET from == IF start < 0 THEN Max(Len(s) + start, 0) ELSE Min(start, Len(s))
  IN SubSeq(s, from + 1, Len(s))

----------------------------------------------------------------------------
(* MessageBroker: the event system *)

\* The events of BrokerEvent, as far as the properties look at them: the
\* type, and the topic name, message id and subscriber id where the event
\* carries them
Event(type, topic, messageId, subscriberId) ==
  [type |-> type, topic |-> topic, messageId |-> messageId,
   subscriberId |-> subscriberId]

\* the handlers the model registers: one that throws on every event and
\* one that returns normally
Handlers == {"hThrows", "hOk"}

HandlerThrows(handler) == handler = "hThrows"

\* handler(event) inside the try of emit: the handler sees the event, and
\* what it throws is caught and written to the console
HandlerCall(w, handler, event) ==
  [w EXCEPT !.handlerLog[handler] = Append(@, event)]

\* the for loop of emit: the catch is inside the loop, so whether the
\* handler throws or returns, the loop goes on to the next one
RECURSIVE EmitLoop(_, _, _)
EmitLoop(w, handlers, event) ==
  IF handlers = <<>> THEN w
  ELSE EmitLoop(HandlerCall(w, Head(handlers), event), Tail(handlers), event)

\* mutant: no try around the call, so the first handler that throws ends
\* the loop
EmitUpToThrow(w, event) ==
  LET first == FindIndex(w.eventHandlers, HandlerThrows)
  IN EmitLoop(w, IF first = 0 THEN w.eventHandlers
                 ELSE SubSeq(w.eventHandlers, 1, first), event)

Emit(w, event) == EmitLoop(w, w.eventHandlers, event)

----------------------------------------------------------------------------
(* TopicManager *)

DefaultConfig ==
  [maxQueueSize |-> DefaultTopicMaxQueueSize,
   messageRetention |-> DefaultMessageRetention,
   maxRetries |-> DefaultTopicMaxRetries]

HasTopic(w, name) == Has(w.topics, name)

\* createTopic, past its two throws (the callers test them)
\* /^[a-zA-Z0-9._#*-]+$/ over the names the model uses
ValidTopicName(name) == name \notin InvalidTopicNames

TMCreateTopic(w, name, createdBy, config) ==
  [w EXCEPT !.topics = MapSet(@, name,
                [messageCount |-> 0, subscriberCount |-> 0,
                 config |-> config @@ DefaultConfig]),
            !.messageHistory = MapSet(@, name, <<>>),
            !.topicSubscribers = MapSet(@, name, <<>>)]

TMDeleteTopicReturns(w, name) == HasTopic(w, name)

\* mutant: the history of the deleted topic stays behind
TMDeleteTopicKeepsHistory(w, name) ==
  IF ~HasTopic(w, name) THEN w
  ELSE [w EXCEPT !.topics = MapDelete(@, name),
                 !.topicSubscribers = MapDelete(@, name)]

TMDeleteTopic(w, name) ==
  IF ~HasTopic(w, name) THEN w
  ELSE [w EXCEPT !.topics = MapDelete(@, name),
                 !.messageHistory = MapDelete(@, name),
                 !.topicSubscribers = MapDelete(@, name)]

\* the two trimming loops: shift while the oldest message is older than
\* the cutoff, then shift while the list is longer than the maximum
RECURSIVE TrimOlder(_, _)
TrimOlder(history, cutoff) ==
  IF Len(history) > 0 /\ history[1].timestamp < cutoff
  THEN TrimOlder(Tail(history), cutoff) ELSE history

RECURSIVE TrimLonger(_, _)
TrimLonger(history, maxHistory) ==
  IF Len(history) > maxHistory
  THEN TrimLonger(Tail(history), maxHistory) ELSE history

RecordMessage(w, message) ==
  IF ~HasTopic(w, message.topic) THEN w
  ELSE LET history == IF Has(w.messageHistory, message.topic)
                      THEN w.messageHistory[message.topic] ELSE <<>>
           cutoff == w.now - w.topics[message.topic].config.messageRetention
       IN [w EXCEPT !.topics[message.topic].messageCount = @ + 1,
                    !.messageHistory = MapSet(@, message.topic,
                       TrimLonger(TrimOlder(Append(history, message), cutoff),
                                  MaxHistory))]

SetSubscriberCount(tps, name, n) ==
  IF Has(tps, name) THEN [tps EXCEPT ![name].subscriberCount = n] ELSE tps

AddSubscriber(w, topicName, subscriberId) ==
  IF ~Has(w.topicSubscribers, topicName) THEN w
  ELSE IF SeqContains(w.topicSubscribers[topicName], subscriberId) THEN w
  ELSE LET subs == Append(w.topicSubscribers[topicName], subscriberId)
       IN [w EXCEPT !.topicSubscribers[topicName] = subs,
                    !.topics = SetSubscriberCount(@, topicName, Len(subs))]

RemoveSubscriber(w, topicName, subscriberId) ==
  IF ~Has(w.topicSubscribers, topicName) THEN w
  ELSE IF ~SeqContains(w.topicSubscribers[topicName], subscriberId) THEN w
  ELSE LET subs == SeqDelete(w.topicSubscribers[topicName], subscriberId)
       IN [w EXCEPT !.topicSubscribers[topicName] = subs,
                    !.topics = SetSubscriberCount(@, topicName, Len(subs))]

\* mutant: the sets lose the subscriber, the cached counts stay
RemoveSubscriberFromAllKeepsCount(w, subscriberId) ==
  [w EXCEPT !.topicSubscribers = [t \in DOMAIN @ |-> SeqDelete(@[t], subscriberId)]]

RemoveSubscriberFromAll(w, subscriberId) ==
  LET ts == [t \in DOMAIN w.topicSubscribers |->
                SeqDelete(w.topicSubscribers[t], subscriberId)]
  IN [w EXCEPT !.topicSubscribers = ts,
               !.topics = [t \in DOMAIN w.topics |->
                  IF Has(ts, t) /\ SeqContains(w.topicSubscribers[t], subscriberId)
                  THEN [w.topics[t] EXCEPT !.subscriberCount = Len(ts[t])]
                  ELSE w.topics[t]]]

\* getStats: totalSubscriptions adds up the cached subscriberCount of the
\* topics in names
RECURSIVE TotalSubscriptions(_, _)
TotalSubscriptions(w, names) ==
  IF names = {} THEN 0
  ELSE LET name == CHOOSE n \in names : TRUE
       IN w.topics[name].subscriberCount + TotalSubscriptions(w, names \ {name})

\* getMetrics().totalSubscribers
TotalSubscribers(w) == TotalSubscriptions(w, DOMAIN w.topics)

GetSubscribers(w, topicName) ==
  IF Has(w.topicSubscribers, topicName) THEN w.topicSubscribers[topicName] ELSE <<>>

----------------------------------------------------------------------------
(* MessageQueue *)

GetAll(w, subscriberId) ==
  IF Has(w.queues, subscriberId) THEN w.queues[subscriberId] ELSE <<>>

GetQueueDepth(w, subscriberId) == Len(GetAll(w, subscriberId))

RECURSIVE SumDepths(_, _)
SumDepths(q, ids) ==
  IF ids = {} THEN 0
  ELSE LET s == CHOOSE x \in ids : TRUE
       IN Len(q[s]) + SumDepths(q, ids \ {s})

\* MessageQueue.getTotalQueued, the queuedMessages metric
GetTotalQueued(w) == SumDepths(w.queues, DOMAIN w.queues)

\* mutant: over the cap the newest entry is dropped, not the oldest
MoveToDeadLetterDropsNewest(w, message, reason) ==
  LET dlqMessage == [failureReason |-> reason,
                     originalTopic |-> message.topic] @@ message
      pushed == Append(w.deadLetterQueue, dlqMessage)
  IN [w EXCEPT !.deadLetterQueue =
        IF Len(pushed) > w.maxDeadLetterSize THEN w.deadLetterQueue ELSE pushed]

MoveToDeadLetter(w, message, reason) ==
  LET dlqMessage == [failureReason |-> reason,
                     originalTopic |-> message.topic] @@ message
      pushed == Append(w.deadLetterQueue, dlqMessage)
  IN [w EXCEPT !.deadLetterQueue =
        IF Len(pushed) > w.maxDeadLetterSize THEN Tail(pushed) ELSE pushed]

Enqueue(w, subscriberId, message) ==
  LET queue == GetAll(w, subscriberId)
      full == Len(queue) >= w.maxQueueSize
      w1 == IF full /\ queue # <<>>
            THEN MoveToDeadLetter(w, Head(queue), OverflowReason) ELSE w
      kept == IF full /\ queue # <<>> THEN Tail(queue) ELSE queue
  IN [w1 EXCEPT !.queues = MapSet(@, subscriberId, Append(kept, message))]

\* !msg.nextRetryAt || msg.nextRetryAt <= now
IsReady(msg, t) ==
  \/ ~Has(msg, "nextRetryAt")
  \/ msg.nextRetryAt = 0
  \/ msg.nextRetryAt <= t

\* the QueuedMessage a caller of enqueue hands over
NewQueuedMessage(w, subscriberId, maxRetries) ==
  [id |-> w.nextMsgId, topic |-> "t1", payload |-> "p1", timestamp |-> w.now,
   publisherId |-> "cliA", ttl |-> 0, correlationId |-> 0, replyTo |-> "",
   subscriberId |-> subscriberId, attempts |-> 0, maxRetries |-> maxRetries]

\* mutant: the newest ready message instead of the oldest
ReadyIndexLast(w, subscriberId) ==
  LET queue == GetAll(w, subscriberId)
      ready == {i \in 1..Len(queue) : IsReady(queue[i], w.now)}
  IN IF ready = {} THEN 0 ELSE CHOOSE i \in ready : \A j \in ready : j <= i

\* the findIndex of dequeue and peek; 0 when nothing is ready
ReadyIndex(w, subscriberId) ==
  FindIndex(GetAll(w, subscriberId), LAMBDA m : IsReady(m, w.now))

ReadyIds(w, subscriberId) ==
  LET ready == SelectSeq(GetAll(w, subscriberId), LAMBDA m : IsReady(m, w.now))
  IN [i \in 1..Len(ready) |-> ready[i].id]

\* what dequeue and peek hand back when nothing is ready
Undefined == [kind |-> "undefined"]

\* a QueuedMessage result
ReturnsMessage(message) == [kind |-> "message", message |-> message]

DequeueReturns(w, subscriberId) ==
  LET i == ReadyIndex(w, subscriberId)
  IN IF i = 0 THEN Undefined
     ELSE ReturnsMessage(GetAll(w, subscriberId)[i])

\* peek: queue.find with the predicate of dequeue
PeekReturns(w, subscriberId) ==
  LET ready == SelectSeq(GetAll(w, subscriberId), LAMBDA m : IsReady(m, w.now))
  IN IF ready = <<>> THEN Undefined ELSE ReturnsMessage(Head(ready))

\* mutant: the head of the queue is taken whenever some message is ready
DequeueHead(w, subscriberId) ==
  LET i == ReadyIndex(w, subscriberId)
  IN IF i = 0 THEN w
     ELSE [w EXCEPT !.queues[subscriberId] = Tail(@)]

\* dequeue: the state after the splice (the message is GetAll[ReadyIndex])
Dequeue(w, subscriberId) ==
  LET i == ReadyIndex(w, subscriberId)
  IN IF i = 0 THEN w
     ELSE [w EXCEPT !.queues[subscriberId] = SeqRemoveAt(@, i)]

QueueAck(w, subscriberId, messageId) ==
  LET queue == GetAll(w, subscriberId)
      index == FindIndex(queue, LAMBDA m : m.id = messageId)
  IN IF ~Has(w.queues, subscriberId) \/ index = 0 THEN w
     ELSE [w EXCEPT !.queues[subscriberId] = SeqRemoveAt(@, index)]

\* mutant: the delay keeps doubling past the cap
BackoffUncapped(attempts) == BackoffBaseMs * Pow2(attempts)

Backoff(attempts) == Min(BackoffBaseMs * Pow2(attempts), BackoffCapMs)

\* mutant: the cap is compared with > instead of >=
QueueNackOffByOne(w, subscriberId, messageId, reason) ==
  LET queue == GetAll(w, subscriberId)
      index == FindIndex(queue, LAMBDA m : m.id = messageId)
  IN IF ~Has(w.queues, subscriberId) \/ index = 0 THEN w
     ELSE LET message == [queue[index] EXCEPT !.attempts = @ + 1]
          IN IF message.attempts > message.maxRetries
             THEN MoveToDeadLetter(
                    [w EXCEPT !.queues[subscriberId] = SeqRemoveAt(@, index)],
                    message, reason)
             ELSE [w EXCEPT !.queues[subscriberId][index] =
                      [nextRetryAt |-> w.now + Backoff(message.attempts)] @@ message]

QueueNack(w, subscriberId, messageId, reason) ==
  LET queue == GetAll(w, subscriberId)
      index == FindIndex(queue, LAMBDA m : m.id = messageId)
  IN IF ~Has(w.queues, subscriberId) \/ index = 0 THEN w
     ELSE LET message == [queue[index] EXCEPT !.attempts = @ + 1]
          IN IF message.attempts >= message.maxRetries
             THEN MoveToDeadLetter(
                    [w EXCEPT !.queues[subscriberId] = SeqRemoveAt(@, index)],
                    message, reason)
             ELSE [w EXCEPT !.queues[subscriberId][index] =
                      [nextRetryAt |-> w.now + Backoff(message.attempts)] @@ message]

IsExpired(msg, t) == msg.ttl # 0 /\ msg.timestamp + msg.ttl < t

PurgeExpired(w) ==
  [w EXCEPT !.queues = [s \in DOMAIN w.queues |->
      SelectSeq(w.queues[s], LAMBDA m : ~IsExpired(m, w.now))]]

----------------------------------------------------------------------------
(* MessageBroker: subscribing *)

ReplyTopic(requesterId, correlationId) ==
  "_reply." \o requesterId \o "." \o ToString(correlationId)

UserCallback == [kind |-> "user", correlationId |-> 0]

ReplyCallback(correlationId) == [kind |-> "reply", correlationId |-> correlationId]

\* mutant: the subscriber record and its sink are left registered
UnsubscribeAllKeepsRecord(w, subscriberId) ==
  Emit(RemoveSubscriberFromAll(w, subscriberId),
       Event("subscriber:disconnected", "", 0, subscriberId))

\* unsubscribe(subscriberId) with no topic list
UnsubscribeAll(w, subscriberId) ==
  LET w1 == RemoveSubscriberFromAll(w, subscriberId)
      w2 == [w1 EXCEPT !.subscribers = MapDelete(@, subscriberId),
                       !.messageCallbacks = MapDelete(@, subscriberId)]
  IN Emit(w2, Event("subscriber:disconnected", "", 0, subscriberId))

\* unsubscribe(subscriberId, topics): the loop over the topic list
RECURSIVE UnsubscribeTopics(_, _, _)
UnsubscribeTopics(w, subscriberId, topicList) ==
  IF topicList = <<>> THEN w
  ELSE LET topic == Head(topicList)
           w1 == RemoveSubscriber(w, topic, subscriberId)
           w2 == [w1 EXCEPT !.subscribers[subscriberId].topics = @ \ {topic}]
       IN UnsubscribeTopics(w2, subscriberId, Tail(topicList))

\* unsubscribe: all is TRUE when the topic list is omitted
Unsubscribe(w, subscriberId, all, topicList) ==
  IF ~Has(w.subscribers, subscriberId) THEN w
  ELSE IF all THEN UnsubscribeAll(w, subscriberId)
  ELSE UnsubscribeTopics(w, subscriberId, topicList)

\* the ids of this.subscribers in Map order: ids are handed out in increasing
\* order and a key is inserted once, so insertion order is id order
FirstReplySubscriber(w, replyTopic, clientId) ==
  LET match == {s \in DOMAIN w.subscribers :
                   /\ w.subscribers[s].clientId = clientId
                   /\ replyTopic \in w.subscribers[s].topics}
  IN IF match = {} THEN 0
     ELSE CHOOSE s \in match : \A o \in match : s <= o

UnsubscribeFromReply(w, replyTopic, clientId) ==
  LET s == FirstReplySubscriber(w, replyTopic, clientId)
      w1 == IF s = 0 THEN w ELSE Unsubscribe(w, s, TRUE, <<>>)
  IN TMDeleteTopic(w1, replyTopic)

----------------------------------------------------------------------------
(* MessageBroker: the request promise *)

NoMessage ==
  [id |-> 0, topic |-> "", payload |-> "", timestamp |-> 0, publisherId |-> "",
   ttl |-> 0, correlationId |-> 0, replyTo |-> ""]

TimeoutError == "Request timeout"

TopicExistsError == "Topic already exists"

InvalidNameError == "Topic name must contain only ..."

\* resolve(response) / reject(error) of the Promise itself: a settled promise
\* ignores further calls; settleCalls counts the calls the broker makes
Settle(w, correlationId, outcome, value, error) ==
  [w EXCEPT !.promises[correlationId] =
     [@ EXCEPT !.settleCalls = Min(@ + 1, 2),
               !.state = IF @ = "pending" THEN outcome ELSE @,
               !.error = IF w.promises[correlationId].state = "pending"
                         THEN error ELSE @,
               !.value = IF w.promises[correlationId].state = "pending" /\ outcome = "resolved"
                         THEN value ELSE @]]

\* pendingRequest.resolve
PendingResolve(w, correlationId, response) ==
  LET env == w.promises[correlationId]
      w1 == [w EXCEPT !.timers = MapDelete(@, correlationId),
                      !.pendingRequests = MapDelete(@, correlationId)]
      w2 == UnsubscribeFromReply(w1, env.replyTopic, env.requesterId)
  IN Settle(w2, correlationId, "resolved", response, "")

\* the setTimeout callback of request()
TimeoutHandler(w, correlationId) ==
  LET env == w.promises[correlationId]
      w1 == [w EXCEPT !.timers = MapDelete(@, correlationId),
                      !.pendingRequests = MapDelete(@, correlationId)]
      w2 == UnsubscribeFromReply(w1, env.replyTopic, env.requesterId)
  IN Settle(w2, correlationId, "rejected", NoMessage, TimeoutError)

----------------------------------------------------------------------------
(* MessageBroker: routing *)

\* what a sink is handed, as far as the properties look at it
LogEntry(message, ok) ==
  [id |-> message.id, topic |-> message.topic, payload |-> message.payload,
   publisherId |-> message.publisherId, correlationId |-> message.correlationId,
   ok |-> ok]

SinkCall(w, subscriberId, message, ok) ==
  [w EXCEPT !.sinkLog[subscriberId] = Append(@, LogEntry(message, ok)),
            !.throwsUsed = IF ok THEN @ ELSE @ + 1]

QueueMessage(w, subscriberId, message) ==
  LET configured == IF HasTopic(w, message.topic)
                    THEN w.topics[message.topic].config.maxRetries ELSE 0
      queuedMessage == [subscriberId |-> subscriberId, attempts |-> 0,
                        maxRetries |-> IF configured # 0 THEN configured
                                       ELSE FallbackMaxRetries] @@ message
      w1 == Enqueue(w, subscriberId, queuedMessage)
      w2 == IF Has(w1.subscribers, subscriberId)
            THEN [w1 EXCEPT !.subscribers[subscriberId].pendingMessages =
                                GetQueueDepth(w1, subscriberId)]
            ELSE w1
  IN Emit(w2, Event("message:queued", message.topic, message.id, subscriberId))

CountDelivered(w, subscriberId) ==
  IF Has(w.subscribers, subscriberId)
  THEN [w EXCEPT !.subscribers[subscriberId].deliveredMessages = @ + 1]
  ELSE w

\* mutant: a message whose sink throws is not queued
DeliverMessageDropsOnThrow(w, subscriberId, message, ok) ==
  IF ~Has(w.messageCallbacks, subscriberId) THEN w
  ELSE LET callback == w.messageCallbacks[subscriberId]
           delivered == Event("message:delivered", message.topic,
                              message.id, subscriberId)
           failed == Event("message:failed", message.topic, message.id, 0)
       IN IF callback.kind = "reply"
          THEN LET w1 == SinkCall(w, subscriberId, message, TRUE)
                   w2 == IF message.correlationId = callback.correlationId
                         THEN PendingResolve(w1, callback.correlationId, message)
                         ELSE w1
               IN Emit(CountDelivered(w2, subscriberId), delivered)
          ELSE LET w1 == SinkCall(w, subscriberId, message, ok)
               IN IF ok THEN Emit(CountDelivered(w1, subscriberId), delivered)
                  ELSE Emit(w1, failed)

\* ok: whether the user's sink returns normally on this call
DeliverMessage(w, subscriberId, message, ok) ==
  IF ~Has(w.messageCallbacks, subscriberId) THEN w
  ELSE LET callback == w.messageCallbacks[subscriberId]
           delivered == Event("message:delivered", message.topic,
                              message.id, subscriberId)
           failed == Event("message:failed", message.topic, message.id, 0)
       IN IF callback.kind = "reply"
          THEN LET w1 == SinkCall(w, subscriberId, message, TRUE)
                   w2 == IF message.correlationId = callback.correlationId
                         THEN PendingResolve(w1, callback.correlationId, message)
                         ELSE w1
               IN Emit(CountDelivered(w2, subscriberId), delivered)
          ELSE LET w1 == SinkCall(w, subscriberId, message, ok)
               IN IF ok THEN Emit(CountDelivered(w1, subscriberId), delivered)
                  ELSE Emit(QueueMessage(w1, subscriberId, message), failed)

\* the body of the for loop of routeMessage
\* message.headers?.[key], "" for undefined: the code tests !value
HeaderValue(message, key) ==
  IF Has(message, "headers") /\ Has(message.headers, key)
  THEN message.headers[key] ELSE ""

PatternMatches(pattern, value) ==
  IF pattern.kind = "regexp" THEN value \in pattern.accepted
  ELSE value = pattern.value

\* typeof message.payload === 'object' && message.payload !== null
IsObject(payload) == payload \in DOMAIN MappingPayloads

\* payload[key] !== expected is false: no expected value offered is undefined,
\* so the key has to be there
PayloadFieldIs(payload, key, expected) ==
  /\ Has(MappingPayloads[payload], key)
  /\ MappingPayloads[payload][key] = expected

MatchesFilter(message, filter) ==
  IF DOMAIN filter = {} THEN TRUE
  ELSE /\ Has(filter, "headers") =>
            \A key \in DOMAIN filter.headers :
               /\ HeaderValue(message, key) # ""
               /\ PatternMatches(filter.headers[key], HeaderValue(message, key))
       /\ (Has(filter, "payload") /\ IsObject(message.payload)) =>
            \A key \in DOMAIN filter.payload :
               PayloadFieldIs(message.payload, key, filter.payload[key])

RouteOne(w, subscriberId, message, throwers) ==
  IF ~Has(w.subscribers, subscriberId) THEN w
  ELSE IF /\ DOMAIN w.subscribers[subscriberId].filter # {}
          /\ ~MatchesFilter(message, w.subscribers[subscriberId].filter)
       THEN w
  ELSE IF w.subscribers[subscriberId].isOnline
       THEN DeliverMessage(w, subscriberId, message, subscriberId \notin throwers)
       ELSE QueueMessage(w, subscriberId, message)

RECURSIVE RouteLoop(_, _, _, _)
RouteLoop(w, ids, message, throwers) ==
  IF ids = <<>> THEN w
  ELSE RouteLoop(RouteOne(w, Head(ids), message, throwers), Tail(ids),
                 message, throwers)

\* mutant: the two lists are joined without the Set
AllSubscriberIdsTwice(w, topic) ==
  GetSubscribers(w, topic) \o GetSubscribers(w, Hash)

AllSubscriberIds(w, topic) ==
  Dedup(GetSubscribers(w, topic) \o GetSubscribers(w, Hash))

RouteMessage(w, message, throwers) ==
  RouteLoop(w, AllSubscriberIds(w, message.topic), message, throwers)

\* mutant: a name in use is not refused
CreateTopicThrowsOnNameOnly(w, name) ==
  IF ~ValidTopicName(name) THEN InvalidNameError ELSE ""

\* what TopicManager.createTopic throws, "" when it does not throw
CreateTopicThrows(w, name) ==
  IF HasTopic(w, name) THEN TopicExistsError
  ELSE IF ~ValidTopicName(name) THEN InvalidNameError
  ELSE ""

\* MessageBroker.createTopic
BrokerCreateTopic(w, name, createdBy, config) ==
  IF CreateTopicThrows(w, name) # "" THEN w
  ELSE Emit(TMCreateTopic(w, name, createdBy, config),
            Event("topic:created", name, 0, 0))

BrokerCreateTopicReturns(w, name) ==
  IF CreateTopicThrows(w, name) # "" THEN Throws(CreateTopicThrows(w, name))
  ELSE ReturnsTopic(name)

\* MessageBroker.deleteTopic
\* mutant: the queued messages of the topic go with it
BrokerDeleteTopicPurgesQueues(w, name) ==
  [TMDeleteTopic(w, name) EXCEPT !.queues =
     [s \in DOMAIN @ |-> SelectSeq(@[s], LAMBDA queued : queued.topic # name)]]

BrokerDeleteTopic(w, name) ==
  LET deleted == TMDeleteTopicReturns(w, name)
      w1 == TMDeleteTopic(w, name)
  IN IF deleted THEN Emit(w1, Event("topic:deleted", name, 0, 0)) ELSE w1

\* TopicManager.getMessageHistory
GetMessageHistoryReturns(w, topicName, limit) ==
  IF ~Has(w.messageHistory, topicName) THEN <<>>
  ELSE JsSlice(w.messageHistory[topicName], 0 - limit)

\* TopicManager.purgeOldMessages
PurgeOldMessages(w) ==
  [w EXCEPT !.messageHistory = [t \in DOMAIN w.messageHistory |->
      IF ~HasTopic(w, t) THEN w.messageHistory[t]
      ELSE TrimOlder(w.messageHistory[t],
                     w.now - w.topics[t].config.messageRetention)]]

\* the setInterval callback of startCleanupInterval
CleanupOp(w) == PurgeOldMessages(PurgeExpired(w))

\* on(handler): a Set keeps one entry per handler
OnOp(w, handler) ==
  IF handler \in SeqToSet(w.eventHandlers) THEN w
  ELSE [w EXCEPT !.eventHandlers = Append(@, handler)]

\* the function on(handler) returns
OffOp(w, handler) == [w EXCEPT !.eventHandlers = SeqDelete(@, handler)]

\* publish auto-creates the topic, and createTopic throws on a bad name
PublishThrows(w, topic) == ~HasTopic(w, topic) /\ ~ValidTopicName(topic)

\* publish; options are ttl, correlationId, replyTo
PublishOp(w, topic, payload, publisherId, options, throwers) ==
  LET w1 == IF ~HasTopic(w, topic)
            THEN TMCreateTopic(w, topic, publisherId, EmptyConfig) ELSE w
      message == [id |-> w.nextMsgId, topic |-> topic, payload |-> payload,
                  timestamp |-> w.now, publisherId |-> publisherId,
                  headers |-> IF Has(options, "headers") THEN options.headers
                              ELSE NoHeaders,
                  ttl |-> options.ttl, correlationId |-> options.correlationId,
                  replyTo |-> options.replyTo]
      w2 == [w1 EXCEPT !.nextMsgId = @ + 1, !.published = Append(@, message)]
      w3 == RouteMessage(RecordMessage(w2, message), message, throwers)
  IN Emit(w3, Event("message:published", topic, message.id, 0))

NoOptions == [ttl |-> 0, correlationId |-> 0, replyTo |-> ""]

----------------------------------------------------------------------------
(* MessageBroker: subscribe, online/offline, drain *)

FinishDrain(w, subscriberId) ==
  LET w1 == IF Has(w.subscribers, subscriberId)
            THEN [w EXCEPT !.subscribers[subscriberId].pendingMessages =
                               GetQueueDepth(w, subscriberId)]
            ELSE w
  IN [w1 EXCEPT !.pc = Idle]

\* enter the while loop of drainQueue, or fall through it
DrainQueue(w, subscriberId) ==
  IF ReadyIndex(w, subscriberId) = 0 THEN FinishDrain(w, subscriberId)
  ELSE IF w.pc.op = "drain" THEN w
  ELSE [w EXCEPT !.pc = [op |-> "drain", sub |-> subscriberId,
                         base |-> Len(w.sinkLog[subscriberId]),
                         ready |-> ReadyIds(w, subscriberId)]]

\* one iteration of the while loop
DrainIteration(w, subscriberId, ok) ==
  LET message == GetAll(w, subscriberId)[ReadyIndex(w, subscriberId)]
      w1 == Dequeue(w, subscriberId)
      w2 == DeliverMessage(w1, subscriberId, message, ok)
  IN DrainQueue(w2, subscriberId)

RECURSIVE SubscribeTopics(_, _, _, _)
\* subscribe throws out of its loop when createTopic rejects the name of a
\* topic it has to create
SubscribeThrows(w, topicList) ==
  \E i \in 1..Len(topicList) :
     ~HasTopic(w, topicList[i]) /\ ~ValidTopicName(topicList[i])

SubscribeTopics(w, clientId, subscriberId, topicList) ==
  IF topicList = <<>> THEN w
  ELSE IF ~HasTopic(w, Head(topicList)) /\ ~ValidTopicName(Head(topicList)) THEN w
  ELSE LET topic == Head(topicList)
           w1 == IF ~HasTopic(w, topic)
                 THEN TMCreateTopic(w, topic, clientId, EmptyConfig) ELSE w
           w2 == AddSubscriber(w1, topic, subscriberId)
       IN SubscribeTopics(w2, clientId, subscriberId, Tail(topicList))

SubscribeFilteredOp(w, clientId, topicList, callback, filter) ==
  LET subscriberId == w.nextSubId
      subscriber == [clientId |-> clientId, topics |-> SeqToSet(topicList),
                     isOnline |-> TRUE, pendingMessages |-> 0,
                     deliveredMessages |-> 0, filter |-> filter]
      w1 == [w EXCEPT !.nextSubId = @ + 1,
                      !.subscribers = MapSet(@, subscriberId, subscriber),
                      !.messageCallbacks = MapSet(@, subscriberId, callback)]
      w2 == SubscribeTopics(w1, clientId, subscriberId, topicList)
      w3 == Emit(w2, Event("subscriber:connected", "", 0, subscriberId))
  IN IF SubscribeThrows(w, topicList) THEN w2 ELSE DrainQueue(w3, subscriberId)

\* subscribe without its optional filter argument
SubscribeOp(w, clientId, topicList, callback) ==
  SubscribeFilteredOp(w, clientId, topicList, callback, NoFilter)

SetSubscriberOnlineOp(w, subscriberId, online) ==
  IF ~Has(w.subscribers, subscriberId) THEN w
  ELSE LET w1 == [w EXCEPT !.subscribers[subscriberId].isOnline = online]
       IN IF online THEN DrainQueue(w1, subscriberId) ELSE w1

----------------------------------------------------------------------------
(* MessageBroker: request / reply *)

RequestOp(w, topic, payload, requesterId, timeout, throwers) ==
  LET correlationId == w.nextCorrId
      replyTopic == ReplyTopic(requesterId, correlationId)
      w1 == [w EXCEPT
               !.nextCorrId = @ + 1,
               !.timers = MapSet(@, correlationId, w.now + timeout),
               !.promises = MapSet(@, correlationId,
                   [state |-> "pending", value |-> NoMessage, error |-> "",
                    settleCalls |-> 0, sentAt |-> w.now, timeout |-> timeout,
                    requesterId |-> requesterId, replyTopic |-> replyTopic]),
               !.pendingRequests = MapSet(@, correlationId,
                   [requesterId |-> requesterId, topic |-> topic,
                    sentAt |-> w.now, timeout |-> timeout])]
      w2 == SubscribeOp(w1, requesterId, <<replyTopic>>, ReplyCallback(correlationId))
  IN IF PublishThrows(w2, topic)
     THEN \* the executor of the Promise throws: the Promise is rejected
          Settle(w2, correlationId, "rejected", NoMessage, InvalidNameError)
     ELSE PublishOp(w2, topic, payload, requesterId,
                    [ttl |-> 0, correlationId |-> correlationId,
                     replyTo |-> replyTopic],
                    throwers)

ReplyReturnsNull(originalMessage) ==
  originalMessage.replyTo = "" \/ originalMessage.correlationId = 0

ReplyOp(w, originalMessage, payload, replierId, throwers) ==
  IF ReplyReturnsNull(originalMessage) THEN w
  ELSE PublishOp(w, originalMessage.replyTo, payload, replierId,
                 [ttl |-> 0, correlationId |-> originalMessage.correlationId,
                  replyTo |-> ""],
                 throwers)

\* MessageQueue.removeFromDeadLetter
RemoveFromDeadLetter(w, messageId) ==
  LET index == FindIndex(w.deadLetterQueue, LAMBDA m : m.id = messageId)
  IN IF index = 0 THEN w
     ELSE [w EXCEPT !.deadLetterQueue = SeqRemoveAt(@, index)]

RemoveFromDeadLetterReturns(w, messageId) ==
  FindIndex(w.deadLetterQueue, LAMBDA m : m.id = messageId) # 0

\* item && item.message, for the entry dlq.find locates: a dead-letter entry
\* is the spread of the queued message, so it has a field named message only
\* if the queued message had one
HasRetryableMessage(dlq, index) ==
  index # 0 /\ Has(dlq[index], "message")

RetryDeadLetterReturns(w, messageId) ==
  LET dlq == w.deadLetterQueue
  IN HasRetryableMessage(dlq, FindIndex(dlq, LAMBDA m : m.id = messageId))

RetryDeadLetterOp(w, messageId, throwers) ==
  LET dlq == w.deadLetterQueue
      index == FindIndex(dlq, LAMBDA m : m.id = messageId)
  IN IF HasRetryableMessage(dlq, index)
     THEN RemoveFromDeadLetter(RouteMessage(w, dlq[index].message, throwers),
                               messageId)
     ELSE w

\* the loop of retryAllDeadLetters over the copy of the dead-letter queue
RECURSIVE RetryAllLoop(_, _, _, _)
RetryAllLoop(w, dlq, index, throwers) ==
  IF index > Len(dlq) THEN w
  ELSE IF HasRetryableMessage(dlq, index)
       THEN RetryAllLoop(
              RemoveFromDeadLetter(RouteMessage(w, dlq[index].message, throwers),
                                   dlq[index].id),
              dlq, index + 1, throwers)
       ELSE RetryAllLoop(w, dlq, index + 1, throwers)

RetryAllDeadLettersOp(w, throwers) ==
  RetryAllLoop(w, w.deadLetterQueue, 1, throwers)

RetryAllDeadLettersReturns(w) ==
  Cardinality({i \in 1..Len(w.deadLetterQueue) :
                 HasRetryableMessage(w.deadLetterQueue, i)})

----------------------------------------------------------------------------
(* ConsumerGroupManager *)

NumPartitions == 16
HeartbeatTimeoutMs == 30000

GroupNames == {"g1"}

\* the group names and subscriber ids offered to the manager on its own
AllGroupNames == {"g1", "g2"}
MemberIds == 1..MaxMembers

\* the messages offered to getNextSubscriber(groupName, message): one whose
\* payload has userId '8' (key 'user:8'), one with an orderId, and one with
\* neither payload field nor correlationId, published by 'cliB'
StickyMessages ==
  {[payload |-> [userId |-> <<56>>], correlationId |-> <<>>,
    publisherId |-> <<99, 108, 105, 65>>],
   [payload |-> [orderId |-> <<55>>], correlationId |-> <<99, 49>>,
    publisherId |-> <<99, 108, 105, 65>>],
   [payload |-> [field \in {} |-> <<>>], correlationId |-> <<>>,
    publisherId |-> <<99, 108, 105, 66>>]}

\* loadFromDatabase: the groups the constructor finds in the database, here
\* two groups created with the sticky strategy by an earlier run
LoadedGroups ==
  [g \in AllGroupNames |->
     [topic |-> "t1", strategy |-> "sticky", members |-> <<>>,
      currentOffset |-> 0, committedOffset |-> 0]]

\* the strategies offered to createGroup
Strategies == {"round-robin", "broadcast"}

GroupExistsError == "Consumer group already exists"

GroupNotFoundError == "Consumer group not found"

\* what database.createConsumerGroup throws when the statement fails
StoreError == "database error"

\* mutant: each member's partitions start at a multiple of the even share,
\* as if no member before it had received an extra one
AssignedPartitionsNoCarry(i, n) ==
  LET partitionsPerMember == NumPartitions \div n
      remainder == NumPartitions % n
      count == partitionsPerMember + (IF i < remainder THEN 1 ELSE 0)
      first == i * partitionsPerMember
  IN [j \in 1..count |-> first + j - 1]

\* the partitions rebalance gives to the member at 0-based position i of n
AssignedPartitions(i, n) ==
  LET partitionsPerMember == NumPartitions \div n
      remainder == NumPartitions % n
      count == partitionsPerMember + (IF i < remainder THEN 1 ELSE 0)
      first == i * partitionsPerMember + Min(i, remainder)
  IN [j \in 1..count |-> first + j - 1]

Rebalance(w, groupName) ==
  IF ~Has(w.groups, groupName) THEN w
  ELSE LET members == w.groups[groupName].members
           numMembers == Len(members)
       IN IF numMembers = 0 THEN w
          ELSE [w EXCEPT !.groups[groupName].members =
                  [i \in 1..numMembers |->
                     [members[i] EXCEPT !.assignedPartitions =
                         AssignedPartitions(i - 1, numMembers)]]]

CreateGroupThrows(w, name) == Has(w.groups, name)

CGCreateGroup(w, name, topic, strategy) ==
  IF CreateGroupThrows(w, name) THEN w
  ELSE [w EXCEPT !.groups = MapSet(@, name,
          [topic |-> topic, strategy |-> strategy, members |-> <<>>,
           currentOffset |-> 0, committedOffset |-> 0])]

MemberIndex(members, subscriberId) ==
  FindIndex(members, LAMBDA m : m.subscriberId = subscriberId)

JoinGroupThrows(w, groupName) == ~Has(w.groups, groupName)

CGJoinGroup(w, groupName, subscriberId, clientId) ==
  IF JoinGroupThrows(w, groupName) THEN w
  ELSE LET members == w.groups[groupName].members
           index == MemberIndex(members, subscriberId)
       IN IF index # 0
          THEN [w EXCEPT !.groups[groupName].members[index].lastHeartbeat = w.now]
          ELSE LET member == [subscriberId |-> subscriberId,
                              clientId |-> clientId,
                              lastHeartbeat |-> w.now,
                              assignedPartitions |-> <<>>,
                              messagesProcessed |-> 0,
                              isLeader |-> Len(members) = 0]
                   w1 == [w EXCEPT
                            !.groups[groupName].members = Append(@, member),
                            !.memberToGroup = MapSet(@, subscriberId, groupName)]
               IN Rebalance(w1, groupName)

\* mutant: no new leader is elected when the leader leaves
CGLeaveGroupNoElection(w, subscriberId) ==
  IF ~Has(w.memberToGroup, subscriberId) THEN w
  ELSE LET groupName == w.memberToGroup[subscriberId]
       IN IF ~Has(w.groups, groupName) THEN w
          ELSE LET members == w.groups[groupName].members
                   memberIndex == MemberIndex(members, subscriberId)
               IN IF memberIndex = 0 THEN w
                  ELSE Rebalance(
                         [w EXCEPT
                            !.groups[groupName].members =
                               SeqRemoveAt(members, memberIndex),
                            !.memberToGroup = MapDelete(@, subscriberId)],
                         groupName)

CGLeaveGroup(w, subscriberId) ==
  IF ~Has(w.memberToGroup, subscriberId) THEN w
  ELSE LET groupName == w.memberToGroup[subscriberId]
       IN IF ~Has(w.groups, groupName) THEN w
          ELSE LET members == w.groups[groupName].members
                   memberIndex == MemberIndex(members, subscriberId)
               IN IF memberIndex = 0 THEN w
                  ELSE LET wasLeader == members[memberIndex].isLeader
                           rest == SeqRemoveAt(members, memberIndex)
                           elected == IF wasLeader /\ Len(rest) > 0
                                      THEN [rest EXCEPT ![1].isLeader = TRUE]
                                      ELSE rest
                           w1 == [w EXCEPT
                                    !.groups[groupName].members = elected,
                                    !.memberToGroup = MapDelete(@, subscriberId)]
                       IN Rebalance(w1, groupName)

\* roundRobinSelect: the counter is read as 0 when the group has none
RoundRobinCounter(w, groupName) ==
  IF Has(w.roundRobinIndex, groupName) THEN w.roundRobinIndex[groupName] ELSE 0

RoundRobinSelect(w, groupName) ==
  LET members == w.groups[groupName].members
  IN members[(RoundRobinCounter(w, groupName) % Len(members)) + 1].subscriberId

\* getNextSubscriber returns null, modelled by 0, for a missing or empty group
\* and for the broadcast strategy
NextSubscriberIsNull(w, groupName) ==
  \/ ~Has(w.groups, groupName)
  \/ Len(w.groups[groupName].members) = 0
  \/ w.groups[groupName].strategy = "broadcast"

GetNextSubscriberReturns(w, groupName) ==
  IF NextSubscriberIsNull(w, groupName) THEN 0
  ELSE RoundRobinSelect(w, groupName)

\* mutant: the cursor advances by two
CGGetNextSubscriberSkips(w, groupName) ==
  IF NextSubscriberIsNull(w, groupName) THEN w
  ELSE [w EXCEPT !.roundRobinIndex =
          MapSet(@, groupName, RoundRobinCounter(w, groupName) + 2)]

CGGetNextSubscriber(w, groupName) ==
  IF NextSubscriberIsNull(w, groupName) THEN w
  ELSE [w EXCEPT !.roundRobinIndex =
          MapSet(@, groupName, RoundRobinCounter(w, groupName) + 1)]

\* ---- the sticky strategy ----

\* Strings that are hashed are sequences of UTF-16 code units.
UserPrefix == <<117, 115, 101, 114, 58>>                              \* "user:"
OrderPrefix == <<111, 114, 100, 101, 114, 58>>                        \* "order:"
SessionPrefix == <<115, 101, 115, 115, 105, 111, 110, 58>>            \* "session:"
CorrelationPrefix == <<99, 111, 114, 114, 101, 108, 97, 116, 105, 111, 110, 58>>
PublisherPrefix == <<112, 117, 98, 108, 105, 115, 104, 101, 114, 58>> \* "publisher:"

\* a field of the payload that is present and truthy (a non-empty string)
Truthy(record, field) == Has(record, field) /\ record[field] # <<>>

\* getStickyKey
GetStickyKey(message) ==
  IF Truthy(message.payload, "userId") THEN UserPrefix \o message.payload.userId
  ELSE IF Truthy(message.payload, "orderId") THEN OrderPrefix \o message.payload.orderId
  ELSE IF Truthy(message.payload, "sessionId")
  THEN SessionPrefix \o message.payload.sessionId
  ELSE IF message.correlationId # <<>>
  THEN CorrelationPrefix \o message.correlationId
  ELSE PublisherPrefix \o message.publisherId

StickyKeys == {GetStickyKey(message) : message \in StickyMessages}

\* A 32-bit integer is kept as its two 16-bit halves <<high, low>> of the
\* two's complement pattern, so that no intermediate value leaves the range
\* of the integers TLC computes with.
HalfWord == 65536

\* one iteration of hashCode: hash = ((hash << 5) - hash) + char; hash & hash
HashStep(hash, char) ==
  LET shiftedLow == hash[2] * 32
      shifted == <<((hash[1] * 32) + (shiftedLow \div HalfWord)) % HalfWord,
                   shiftedLow % HalfWord>>
      low == (shifted[2] - hash[2]) + char
      high == (shifted[1] - hash[1]) + (low \div HalfWord)
  IN <<high % HalfWord, low % HalfWord>>

RECURSIVE HashFrom(_, _)
HashFrom(hash, str) ==
  IF str = <<>> THEN hash ELSE HashFrom(HashStep(hash, Head(str)), Tail(str))

HashCode(str) == HashFrom(<<0, 0>>, str)

\* Math.abs(hash) % n
AbsMod(hash, n) ==
  LET negative == hash[1] >= (HalfWord \div 2)
      low == IF negative THEN (HalfWord - hash[2]) % HalfWord ELSE hash[2]
      high == IF negative
              THEN (HalfWord - hash[1]) - (IF hash[2] = 0 THEN 0 ELSE 1)
              ELSE hash[1]
  IN (((high % n) * (HalfWord % n)) + (low % n)) % n

\* stickySelect: the subscriber it returns
StickySelect(w, groupName, message) ==
  LET stickyKey == GetStickyKey(message)
      members == w.groups[groupName].members
  IN IF /\ Has(w.stickyAssignments, stickyKey)
        /\ MemberIndex(members, w.stickyAssignments[stickyKey]) # 0
     THEN w.stickyAssignments[stickyKey]
     ELSE members[AbsMod(HashCode(stickyKey), Len(members)) + 1].subscriberId

\* getNextSubscriber(groupName, message): what it returns (0 for null)
GetNextSubscriberForReturns(w, groupName, message) ==
  IF NextSubscriberIsNull(w, groupName) THEN 0
  ELSE IF w.groups[groupName].strategy = "sticky"
  THEN StickySelect(w, groupName, message)
  ELSE RoundRobinSelect(w, groupName)

\* getNextSubscriber(groupName, message): the state it leaves; stickySelect
\* stores the subscriber it returns under the key, whichever group asked
CGGetNextSubscriberFor(w, groupName, message) ==
  IF NextSubscriberIsNull(w, groupName) THEN w
  ELSE IF w.groups[groupName].strategy = "sticky"
  THEN [w EXCEPT !.stickyAssignments =
          MapSet(@, GetStickyKey(message), StickySelect(w, groupName, message))]
  ELSE CGGetNextSubscriber(w, groupName)

RECURSIVE DeleteMembers(_, _)
DeleteMembers(map, members) ==
  IF members = <<>> THEN map
  ELSE DeleteMembers(MapDelete(map, Head(members).subscriberId), Tail(members))

CGDeleteGroup(w, name) ==
  IF ~Has(w.groups, name) THEN w
  ELSE [w EXCEPT !.memberToGroup = DeleteMembers(@, w.groups[name].members),
                 !.groups = MapDelete(@, name),
                 !.roundRobinIndex = MapDelete(@, name)]

CGHeartbeat(w, subscriberId) ==
  IF ~Has(w.memberToGroup, subscriberId) THEN w
  ELSE LET groupName == w.memberToGroup[subscriberId]
       IN IF ~Has(w.groups, groupName) THEN w
          ELSE LET index == MemberIndex(w.groups[groupName].members, subscriberId)
               IN IF index = 0 THEN w
                  ELSE [w EXCEPT
                          !.groups[groupName].members[index].lastHeartbeat = w.now]

\* the members of a group that checkHeartbeats finds dead, in list order
DeadMembers(w, groupName, t) ==
  SelectSeq(w.groups[groupName].members,
            LAMBDA m : t - m.lastHeartbeat > HeartbeatTimeoutMs)

\* the inner loop of checkHeartbeats: leaveGroup for each dead member
\* (each intermediate state is bound through a one-element set, so that it
\* is computed once however often the rest of the loop reads it)
RECURSIVE LeaveAll(_, _)
LeaveAll(w, members) ==
  IF members = <<>> THEN w
  ELSE CHOOSE r \in {LeaveAll(w1, Tail(members)) :
                      w1 \in {CGLeaveGroup(w, Head(members).subscriberId)}} : TRUE

\* the outer loop of checkHeartbeats over the groups in the order given;
\* the dead members of a group are filtered when the loop reaches it
RECURSIVE CheckHeartbeatsLoop(_, _, _)
CheckHeartbeatsLoop(w, groupNames, t) ==
  IF groupNames = <<>> THEN w
  ELSE CHOOSE r \in {CheckHeartbeatsLoop(w1, Tail(groupNames), t) :
                      w1 \in {LeaveAll(w, deadMembers) :
                        deadMembers \in {DeadMembers(w, Head(groupNames), t)}}} : TRUE

\* the orders in which a Map with these keys may iterate
Orders(keys) ==
  {o \in [1..Cardinality(keys) -> keys] :
      \A i, j \in 1..Cardinality(keys) : i # j => o[i] # o[j]}

----------------------------------------------------------------------------
(* AuthManager *)

InvalidKeyError == "Invalid API key"
DisabledKeyError == "API key is disabled"
ExpiredKeyError == "API key has expired"
RateLimitError == "Rate limit exceeded"

\* the keys the constructor creates
DefaultClients ==
  <<[clientId |-> "admin", name |-> "Dashboard Admin",
     permissions |-> <<"publish", "subscribe", "admin", "topic:create",
                       "topic:delete", "metrics:read">>],
    [clientId |-> "publisher-1", name |-> "Demo Publisher",
     permissions |-> <<"publish", "topic:create">>],
    [clientId |-> "subscriber-1", name |-> "Demo Subscriber",
     permissions |-> <<"subscribe">>],
    [clientId |-> "service-1", name |-> "Demo Service",
     permissions |-> <<"publish", "subscribe", "topic:create">>]>>

\* every key the model can create; generateApiKey's random strings are the
\* numbers 1, 2, ... in the order they are drawn
KeyIds == 1..(Len(DefaultClients) + MaxKeys)

\* the keys createApiKey hands out after the constructor's
CreatedKeyIds == (Len(DefaultClients) + 1)..(Len(DefaultClients) + MaxKeys)

\* the ApiKey object createApiKey builds at time t; expiresAt 0 is undefined
NewApiKey(key, clientId, name, permissions, options, t) ==
  [key |-> key,
   clientId |-> clientId,
   name |-> name,
   permissions |-> permissions,
   createdAt |-> t,
   expiresAt |-> IF Has(options, "expiresIn") /\ options.expiresIn # 0
                 THEN t + options.expiresIn ELSE 0,
   rateLimit |->
     [maxRequests |-> IF Has(options, "rateLimit") /\ options.rateLimit.maxRequests # 0
                      THEN options.rateLimit.maxRequests
                      ELSE DefaultRateMaxRequests,
      windowMs |-> IF Has(options, "rateLimit") /\ options.rateLimit.windowMs # 0
                   THEN options.rateLimit.windowMs
                   ELSE DefaultRateWindowMs,
      currentRequests |-> 0,
      windowStart |-> t],
   isActive |-> TRUE]

AMCreateApiKey(w, clientId, name, permissions, options) ==
  [w EXCEPT !.apiKeys = MapSet(@, w.nextKeyId,
                          NewApiKey(w.nextKeyId, clientId, name, permissions,
                                    options, w.now)),
            !.keysByClientId = MapSet(@, clientId, w.nextKeyId),
            !.nextKeyId = @ + 1]

\* new AuthManager()
DefaultApiKeys ==
  [k \in 1..Len(DefaultClients) |->
     NewApiKey(k, DefaultClients[k].clientId, DefaultClients[k].name,
               DefaultClients[k].permissions, NoKeyOptions, 0)]

DefaultKeysByClientId ==
  [c \in {DefaultClients[k].clientId : k \in 1..Len(DefaultClients)} |->
     CHOOSE k \in 1..Len(DefaultClients) : DefaultClients[k].clientId = c]

WindowExpired(w, key) ==
  LET rateLimit == w.apiKeys[key].rateLimit
      windowEnd == rateLimit.windowStart + rateLimit.windowMs
  IN w.now > windowEnd

\* mutant: a request is let through when the count has reached the limit
CheckRateLimitReturnsAtLimit(w, key) ==
  \/ WindowExpired(w, key)
  \/ w.apiKeys[key].rateLimit.currentRequests <= w.apiKeys[key].rateLimit.maxRequests

CheckRateLimitReturns(w, key) ==
  \/ WindowExpired(w, key)
  \/ w.apiKeys[key].rateLimit.currentRequests < w.apiKeys[key].rateLimit.maxRequests

CheckRateLimit(w, key) ==
  IF WindowExpired(w, key)
  THEN [w EXCEPT !.apiKeys[key].rateLimit.currentRequests = 0,
                 !.apiKeys[key].rateLimit.windowStart = w.now]
  ELSE w

KeyHasExpired(w, key) ==
  w.apiKeys[key].expiresAt # 0 /\ w.now > w.apiKeys[key].expiresAt

AuthFails(error) == [success |-> FALSE, error |-> error]

AuthenticateReturns(w, key) ==
  IF ~Has(w.apiKeys, key) THEN AuthFails(InvalidKeyError)
  ELSE IF ~w.apiKeys[key].isActive THEN AuthFails(DisabledKeyError)
  ELSE IF KeyHasExpired(w, key) THEN AuthFails(ExpiredKeyError)
  ELSE IF ~CheckRateLimitReturns(w, key) THEN AuthFails(RateLimitError)
  ELSE [success |-> TRUE,
        clientId |-> w.apiKeys[key].clientId,
        permissions |-> w.apiKeys[key].permissions]

AMAuthenticate(w, key) ==
  IF ~Has(w.apiKeys, key) THEN w
  ELSE IF ~w.apiKeys[key].isActive THEN w
  ELSE IF KeyHasExpired(w, key) THEN w
  ELSE IF ~CheckRateLimitReturns(w, key) THEN CheckRateLimit(w, key)
  ELSE [CheckRateLimit(w, key) EXCEPT
          !.apiKeys[key].rateLimit.currentRequests = @ + 1]

AMRevokeKey(w, key) ==
  IF ~Has(w.apiKeys, key) THEN w
  ELSE [w EXCEPT !.apiKeys[key].isActive = FALSE]

AMResetRateLimit(w, key) ==
  IF ~Has(w.apiKeys, key) THEN w
  ELSE [w EXCEPT !.apiKeys[key].rateLimit.currentRequests = 0,
                 !.apiKeys[key].rateLimit.windowStart = w.now]

----------------------------------------------------------------------------
(* Initial state: a MessageBroker just constructed *)

EmptyMap == [k \in {} |-> 0]

\* ghost, per group: the subscribers getNextSubscriber returned since the
\* group was created, and the position of the first one returned since
\* the member list last changed
FreshSelection == [all |-> <<>>, stableFrom |-> 1]

\* ghost, per API key: the number of its current rate-limit window, what
\* opened it, and the authenticate calls made with the key so far
FreshWindow == [window |-> 1, opened |-> "created", calls |-> <<>>]

InitBroker ==
  /\ topics = EmptyMap
  /\ topicSubscribers = EmptyMap
  /\ subscribers = EmptyMap
  /\ messageCallbacks = EmptyMap
  /\ queues = EmptyMap
  /\ deadLetterQueue = <<>>
  /\ pendingRequests = EmptyMap
  /\ timers = EmptyMap
  /\ promises = EmptyMap
  /\ now = 0
  /\ nextMsgId = 1
  /\ nextSubId = 1
  /\ nextCorrId = 1
  /\ sinkLog = [s \in SubIds |-> <<>>]
  /\ published = <<>>
  /\ throwsUsed = 0
  /\ ops = 0
  /\ ghost = [gone |-> {},
              offline |-> [s \in SubIds |-> [base |-> 0, msgs |-> <<>>]],
              selected |-> [g \in AllGroupNames |-> FreshSelection],
              evicted |-> {},
              auth |-> [k \in KeyIds |-> FreshWindow],
              sticky |-> [g \in AllGroupNames |-> [k \in StickyKeys |-> 0]]]
  /\ memberToGroup = EmptyMap
  /\ roundRobinIndex = EmptyMap
  /\ stickyAssignments = EmptyMap
  /\ returned = NoReturn
  /\ messageHistory = EmptyMap
  /\ eventHandlers = <<>>
  /\ handlerLog = [h \in Handlers |-> <<>>]
  /\ apiKeys = DefaultApiKeys
  /\ keysByClientId = DefaultKeysByClientId
  /\ nextKeyId = Len(DefaultClients) + 1
  /\ pc = Idle

\* new MessageBroker(), whose queue is a new MessageQueue()
Init ==
  /\ InitBroker
  /\ groups = EmptyMap
  /\ maxQueueSize = QueueMaxSize
  /\ maxDeadLetterSize = DeadLetterMaxSize

\* new ConsumerGroupManager() over a database that holds LoadedGroups
InitSticky ==
  /\ InitBroker
  /\ groups = LoadedGroups
  /\ maxQueueSize = QueueMaxSize
  /\ maxDeadLetterSize = DeadLetterMaxSize

\* a MessageQueue on its own: new MessageQueue(maxQueueSize, maxDeadLetterSize)
InitCaps ==
  /\ InitBroker
  /\ groups = EmptyMap
  /\ maxQueueSize \in 1..MaxQueueCap
  /\ maxDeadLetterSize \in 1..MaxDeadLetterCap

----------------------------------------------------------------------------
(* Actions: one per broker method, timer callback or loop iteration *)

\* the online subscribers with a user sink that a publish to topic reaches
SinkCandidates(w, topic) ==
  {s \in SeqToSet(AllSubscriberIds(w, topic)) :
      /\ Has(w.subscribers, s)
      /\ w.subscribers[s].isOnline
      /\ Has(w.messageCallbacks, s)
      /\ w.messageCallbacks[s].kind = "user"}

\* the sinks that throw on this call
ThrowerSets(w, topic) ==
  {thr \in SUBSET SinkCandidates(w, topic) :
      Cardinality(thr) + w.throwsUsed <= MaxThrows}

\* ghost: a message published while a subscriber of its topic is offline
GhostPublish(topic) ==
  [ghost EXCEPT !.offline = [s \in SubIds |->
     IF /\ Has(subscribers, s)
        /\ ~subscribers[s].isOnline
        /\ (topic \in subscribers[s].topics \/ Hash \in subscribers[s].topics)
     THEN [@[s] EXCEPT !.msgs = Append(@, nextMsgId)]
     ELSE @[s]]]

\* ghost: a subscriber goes offline
GhostOnline(subscriberId, online) ==
  IF ~online /\ subscribers[subscriberId].isOnline
  THEN [ghost EXCEPT !.offline[subscriberId] =
          [base |-> Len(sinkLog[subscriberId]), msgs |-> <<>>]]
  ELSE ghost

\* ghost: unsubscribe(subscriberId) returned true
GhostUnsubscribe(subscriberId, all) ==
  IF all THEN [ghost EXCEPT !.gone = @ \cup {subscriberId}] ELSE ghost

CreateTopic(name, createdBy, config) ==
  /\ CanCall
  /\ CallR(BrokerCreateTopic(World, name, createdBy, config),
           BrokerCreateTopicReturns(World, name))

DeleteTopic(name) ==
  /\ CanCall
  /\ CallR(BrokerDeleteTopic(World, name),
           Returns(TMDeleteTopicReturns(World, name)))

Publish(topic, payload, publisherId, ttl) ==
  /\ CanCall
  /\ nextMsgId <= MaxPublish
  /\ \E thr \in ThrowerSets(World, topic) :
       CallG(PublishOp(World, topic, payload, publisherId,
                       [NoOptions EXCEPT !.ttl = ttl], thr),
             GhostPublish(topic))

Subscribe(clientId, topicList) ==
  /\ CanCall
  /\ nextSubId <= MaxSubscribers
  /\ IF SubscribeThrows(World, topicList)
     THEN CallR(SubscribeOp(World, clientId, topicList, UserCallback),
                Throws(InvalidNameError))
     ELSE Call(SubscribeOp(World, clientId, topicList, UserCallback))

SubscribeFiltered(clientId, topicList, filter) ==
  /\ CanCall
  /\ nextSubId <= MaxSubscribers
  /\ Call(SubscribeFilteredOp(World, clientId, topicList, UserCallback, filter))

PublishWithHeaders(topic, payload, publisherId, headers) ==
  /\ CanCall
  /\ nextMsgId <= MaxPublish
  /\ \E thr \in ThrowerSets(World, topic) :
       CallG(PublishOp(World, topic, payload, publisherId,
                       [headers |-> headers] @@ NoOptions, thr),
             GhostPublish(topic))

UnsubscribeAct(subscriberId, all, topicList) ==
  /\ CanCall
  /\ Has(subscribers, subscriberId)
  /\ CallG(Unsubscribe(World, subscriberId, all, topicList),
           GhostUnsubscribe(subscriberId, all))

SetSubscriberOnline(subscriberId, online) ==
  /\ CanCall
  /\ Has(subscribers, subscriberId)
  /\ CallG(SetSubscriberOnlineOp(World, subscriberId, online),
           GhostOnline(subscriberId, online))

DrainStep(ok) ==
  /\ pc.op = "drain"
  /\ ok \/ (Has(messageCallbacks, pc.sub) /\ messageCallbacks[pc.sub].kind = "user")
  /\ ok \/ throwsUsed < MaxThrows
  /\ Commit(DrainIteration(World, pc.sub, ok))
  /\ UNCHANGED <<ops, ghost, returned>>

Ack(subscriberId, messageId) ==
  /\ CanCall
  /\ Has(queues, subscriberId)
  /\ \E i \in 1..Len(queues[subscriberId]) : queues[subscriberId][i].id = messageId
  /\ Call(QueueAck(World, subscriberId, messageId))

Nack(subscriberId, messageId, reason) ==
  /\ CanCall
  /\ Has(queues, subscriberId)
  /\ \E i \in 1..Len(queues[subscriberId]) : queues[subscriberId][i].id = messageId
  /\ Call(QueueNack(World, subscriberId, messageId, reason))

\* dequeue and peek called on a MessageQueue directly
MQDequeue(subscriberId) ==
  /\ CanCall
  /\ CallR(Dequeue(World, subscriberId), DequeueReturns(World, subscriberId))

MQPeek(subscriberId) ==
  /\ CanCall
  /\ CallR(World, PeekReturns(World, subscriberId))

\* nack called as often as the message allows: every call adds one to
\* attempts, and the call that reaches maxRetries takes the message away
NackRetry(subscriberId, messageId, reason) ==
  /\ pc = Idle
  /\ Has(queues, subscriberId)
  /\ \E i \in 1..Len(queues[subscriberId]) : queues[subscriberId][i].id = messageId
  /\ Call(QueueNack(World, subscriberId, messageId, reason))

\* enqueue called on a MessageQueue directly, with a fresh message
MQEnqueue(subscriberId, maxRetries) ==
  /\ CanCall
  /\ nextMsgId <= MaxPublish
  /\ Call([Enqueue(World, subscriberId,
                   NewQueuedMessage(World, subscriberId, maxRetries))
             EXCEPT !.nextMsgId = @ + 1])

\* the clock advances
Tick ==
  /\ CanCall
  /\ now + TickMs <= MaxTime
  /\ Call([World EXCEPT !.now = @ + TickMs])

\* the setInterval callback of startCleanupInterval, when it has work
Cleanup ==
  /\ CanCall
  /\ CleanupOp(World) # World
  /\ Call(CleanupOp(World))

GetMessageHistory(topicName, limit) ==
  /\ CanCall
  /\ CallR(World, ReturnsList(GetMessageHistoryReturns(World, topicName, limit)))

On(handler) ==
  /\ CanCall
  /\ Call(OnOp(World, handler))

Off(handler) ==
  /\ CanCall
  /\ Call(OffOp(World, handler))

Request(topic, payload, requesterId, timeout) ==
  /\ CanCall
  /\ nextCorrId <= MaxRequests
  /\ nextSubId <= MaxSubscribers
  /\ nextMsgId <= MaxPublish
  /\ IF PublishThrows(World, topic)
     THEN Call(RequestOp(World, topic, payload, requesterId, timeout, {}))
     ELSE \E thr \in ThrowerSets(World, topic) :
            CallG(RequestOp(World, topic, payload, requesterId, timeout, thr),
                  GhostPublish(topic))

\* reply(originalMessage, payload, replierId); the replier holds a message
\* that was published, possibly with a correlation id of its own
Reply(originalMessage, payload, replierId) ==
  /\ CanCall
  /\ nextMsgId <= MaxPublish
  /\ ~ReplyReturnsNull(originalMessage)
  /\ \E thr \in ThrowerSets(World, originalMessage.replyTo) :
       CallG(ReplyOp(World, originalMessage, payload, replierId, thr),
             GhostPublish(originalMessage.replyTo))

\* the timer of request() fires, at or after its deadline
Timeout(correlationId) ==
  /\ pc = Idle
  /\ Has(timers, correlationId)
  /\ now >= timers[correlationId]
  /\ Commit(TimeoutHandler(World, correlationId))
  /\ UNCHANGED <<ops, ghost, returned>>

\* the subscriber ids of a group's member list, in list order
MemberList(w, groupName) ==
  IF ~Has(w.groups, groupName) THEN <<>>
  ELSE [i \in 1..Len(w.groups[groupName].members) |->
          w.groups[groupName].members[i].subscriberId]

\* ghost: a call of the manager that ends in w2, and that returned the
\* subscriber pick for the group named, if it is a getNextSubscriber
GhostGroups(w2, groupName, pick) ==
  [ghost EXCEPT !.selected = [g \in DOMAIN @ |->
     IF ~Has(w2.groups, g) THEN FreshSelection
     ELSE IF MemberList(w2, g) # MemberList(World, g)
     THEN [@[g] EXCEPT !.stableFrom = Len(ghost.selected[g].all) + 1]
     ELSE IF g = groupName /\ pick # 0
     THEN [@[g] EXCEPT !.all = Append(@, pick)]
     ELSE @[g]]]

\* ghost: the subscribers a heartbeat check made leave
GhostEvicted(w2, g) ==
  [g EXCEPT !.evicted = @ \cup (DOMAIN memberToGroup \ DOMAIN w2.memberToGroup)]

CreateGroup(name, topic, strategy) ==
  /\ CanCall
  /\ IF CreateGroupThrows(World, name)
     THEN CallR(World, Throws(GroupExistsError))
     ELSE Call(CGCreateGroup(World, name, topic, strategy))

\* createGroup with the outcome of database.createConsumerGroup: the store
\* is called after groups.set, and what it throws leaves createGroup uncaught
CreateGroupWithStore(name, topic, strategy, storeOk) ==
  /\ CanCall
  /\ IF CreateGroupThrows(World, name)
     THEN CallR(World, Throws(GroupExistsError))
     ELSE IF storeOk
     THEN Call(CGCreateGroup(World, name, topic, strategy))
     ELSE CallR(CGCreateGroup(World, name, topic, strategy), Throws(StoreError))

JoinGroup(groupName, subscriberId, clientId) ==
  /\ CanCall
  /\ IF JoinGroupThrows(World, groupName)
     THEN CallR(World, Throws(GroupNotFoundError))
     ELSE LET w2 == CGJoinGroup(World, groupName, subscriberId, clientId)
          IN CallG(w2, GhostGroups(w2, groupName, 0))

LeaveGroup(subscriberId) ==
  /\ CanCall
  /\ LET w2 == CGLeaveGroup(World, subscriberId)
     IN CallG(w2, GhostGroups(w2, "", 0))

GetNextSubscriber(groupName) ==
  /\ CanCall
  /\ LET w2 == CGGetNextSubscriber(World, groupName)
         pick == GetNextSubscriberReturns(World, groupName)
     IN CallRG(w2, ReturnsNumber(pick), GhostGroups(w2, groupName, pick))

\* ghost.sticky[g][k]: the subscriber the last sticky select of group g with
\* key k returned, 0 when there was none
GhostSticky(g, groupName, stickyKey, pick) ==
  IF pick = 0 THEN g ELSE [g EXCEPT !.sticky[groupName][stickyKey] = pick]

GetNextSubscriberFor(groupName, message) ==
  /\ CanCall
  /\ LET w2 == CGGetNextSubscriberFor(World, groupName, message)
         pick == GetNextSubscriberForReturns(World, groupName, message)
     IN CallRG(w2, ReturnsNumber(pick),
               GhostSticky(GhostGroups(w2, groupName, pick),
                           groupName, GetStickyKey(message), pick))

DeleteGroup(name) ==
  /\ CanCall
  /\ LET w2 == CGDeleteGroup(World, name)
     IN CallRG(w2, Returns(Has(groups, name)), GhostGroups(w2, "", 0))

Heartbeat(subscriberId) ==
  /\ CanCall
  /\ Call(CGHeartbeat(World, subscriberId))

\* the setInterval callback of the constructor, when it has work; the
\* groups are visited in any order a Map may hold them in
CheckHeartbeats ==
  /\ CanCall
  /\ \E order \in Orders(DOMAIN groups) :
       LET w2 == CheckHeartbeatsLoop(World, order, now)
       IN w2 # World /\ CallG(w2, GhostEvicted(w2, GhostGroups(w2, "", 0)))

\* ghost: an authenticate call with a known key, filed under the window it
\* falls in; the window that was open has expired when the clock is past
\* its end
GhostAuthCall(key, result) ==
  IF ~Has(apiKeys, key) THEN ghost
  ELSE LET expired == WindowExpired(World, key)
           window == IF expired THEN ghost.auth[key].window + 1
                     ELSE ghost.auth[key].window
           opened == IF expired THEN "expired" ELSE ghost.auth[key].opened
           call == [window |-> window, opened |-> opened, at |-> now,
                    valid |-> apiKeys[key].isActive /\ ~KeyHasExpired(World, key),
                    result |-> result]
       IN [ghost EXCEPT !.auth[key] =
             [window |-> window, opened |-> opened,
              calls |-> Append(@.calls, call)]]

GhostAuthReset(key) ==
  IF ~Has(apiKeys, key) THEN ghost
  ELSE [ghost EXCEPT !.auth[key].window = @ + 1, !.auth[key].opened = "reset"]

CreateApiKey(clientId, options) ==
  /\ CanCall
  /\ nextKeyId <= Len(DefaultClients) + MaxKeys
  /\ Call(AMCreateApiKey(World, clientId, "Rate Test", <<"publish">>, options))

Authenticate(key) ==
  /\ CanCall
  /\ LET result == AuthenticateReturns(World, key)
     IN CallRG(AMAuthenticate(World, key), ReturnsAuth(result),
               GhostAuthCall(key, result))

RevokeKey(key) ==
  /\ CanCall
  /\ CallR(AMRevokeKey(World, key), Returns(Has(apiKeys, key)))

ResetRateLimit(key) ==
  /\ CanCall
  /\ CallRG(AMResetRateLimit(World, key), Returns(Has(apiKeys, key)),
            GhostAuthReset(key))


\* the clock advances past the heartbeat timeout
LongTick ==
  /\ CanCall
  /\ now + HeartbeatTimeoutMs + TickMs <= MaxTicks * (HeartbeatTimeoutMs + TickMs)
  /\ Call([World EXCEPT !.now = @ + HeartbeatTimeoutMs + TickMs])

RetryDeadLetter(messageId) ==
  /\ CanCall
  /\ CallR(RetryDeadLetterOp(World, messageId, {}),
           Returns(RetryDeadLetterReturns(World, messageId)))

RetryAllDeadLetters ==
  /\ CanCall
  /\ CallR(RetryAllDeadLettersOp(World, {}),
           ReturnsNumber(RetryAllDeadLettersReturns(World)))

DeleteDeadLetter(messageId) ==
  /\ CanCall
  /\ CallR(RemoveFromDeadLetter(World, messageId),
           Returns(RemoveFromDeadLetterReturns(World, messageId)))

SingleTopicLists == {<<t>> : t \in UserTopics \cup {Hash}}

TopicActs ==
  \/ \E n \in UserTopics \ DOMAIN topics : CreateTopic(n, "cliA", CustomConfig)
  \/ \E n \in DOMAIN topics : DeleteTopic(n)

PublishAct ==
  \E t \in UserTopics, i \in PublishInputs :
     Publish(t, i.payload, i.publisherId, 0)

PublishTtlAct ==
  \E t \in UserTopics, i \in PublishInputs :
     Publish(t, i.payload, i.publisherId, i.ttl)

SubscribeAct == \E i \in SubscribeInputs : Subscribe(i.clientId, i.topics)

UnsubscribeActs ==
  \/ \E s \in SubIds, l \in SingleTopicLists : UnsubscribeAct(s, FALSE, l)
  \/ \E s \in SubIds : UnsubscribeAct(s, TRUE, <<>>)

OnlineAct == \E s \in SubIds, b \in BOOLEAN : SetSubscriberOnline(s, b)

DrainAct == \E ok \in BOOLEAN : DrainStep(ok)

AckAct == \E s \in SubIds, m \in 1..MaxPublish : Ack(s, m)

NackAct == \E s \in SubIds, m \in 1..MaxPublish : Nack(s, m, NackReason)

\* Routing and delivery
Next ==
  \/ TopicActs
  \/ PublishAct
  \/ SubscribeAct
  \/ UnsubscribeActs
  \/ OnlineAct
  \/ DrainAct

Spec == Init /\ [][Next]_vars

\* The subscriber queue: routing plus ack, nack, the clock and the TTL purge
NextQueue ==
  \/ \E n \in UserTopics \ DOMAIN topics : CreateTopic(n, "cliA", CustomConfig)
  \/ PublishTtlAct
  \/ SubscribeAct
  \/ OnlineAct
  \/ DrainAct
  \/ AckAct
  \/ NackAct
  \/ Tick
  \/ Cleanup

SpecQueue == Init /\ [][NextQueue]_vars

\* the messages a replier may answer: those published, as they are or with
\* the correlation id replaced
WrongCorrelationId == MaxRequests + 1

Origins ==
  {published[i] : i \in 1..Len(published)} \cup
  {[published[i] EXCEPT !.correlationId = WrongCorrelationId] :
      i \in 1..Len(published)}

RequestAct ==
  \E t \in UserTopics \cup InvalidTopicNames :
     Request(t, "p1", "cliA", RequestTimeoutMs)

ReplyAct == \E o \in Origins : Reply(o, "p2", "cliB")

TimeoutAct == \E c \in CorrIds : Timeout(c)

\* Request/reply
NextReq ==
  \/ RequestAct
  \/ ReplyAct
  \/ TimeoutAct
  \/ Tick
  \/ SubscribeAct
  \/ \E s \in SubIds : UnsubscribeAct(s, TRUE, <<>>)
  \/ OnlineAct
  \/ DrainAct
  \/ \E n \in DOMAIN topics : DeleteTopic(n)

SpecReq == Init /\ [][NextReq]_vars

HistoryLimits == 0..(MaxPublish + 1) \cup {DefaultHistoryLimit}

\* The topic registry: create, delete, history and its retention
NextTopic ==
  \/ \E n \in UserTopics \cup InvalidTopicNames,
        c \in {CustomConfig, RetentionConfig} : CreateTopic(n, "cliA", c)
  \/ \E n \in UserTopics : DeleteTopic(n)
  \/ \E t \in UserTopics : Publish(t, "p1", "cliA", 0)
  \/ \E t \in UserTopics : Subscribe("cliA", <<t>>)
  \/ \E n \in UserTopics, l \in HistoryLimits : GetMessageHistory(n, l)
  \/ On("hOk")
  \/ Tick
  \/ Cleanup

SpecTopic == Init /\ [][NextTopic]_vars

RetryCaps == 1..2

\* A MessageQueue constructed with small caps, its methods called directly
NextCaps ==
  \/ \E s \in SubIds, r \in RetryCaps : MQEnqueue(s, r)
  \/ AckAct
  \/ NackAct
  \/ \E m \in 1..MaxPublish : DeleteDeadLetter(m)

SpecCaps == InitCaps /\ [][NextCaps]_vars

\* retry caps high enough for the backoff to reach its ceiling
BackoffRetryCaps == {FallbackMaxRetries, MaxNacks + 1}

\* A MessageQueue whose messages are nacked until they are dead-lettered
NextBackoff ==
  \/ \E r \in BackoffRetryCaps : nextMsgId <= MaxBackoffMessages /\ MQEnqueue(1, r)
  \/ \E id \in 1..MaxBackoffMessages : NackRetry(1, id, NackReason)
  \/ \E id \in 1..MaxBackoffMessages : Ack(1, id)
  \/ Tick

SpecBackoff == Init /\ [][NextBackoff]_vars

\* A MessageQueue read with dequeue and peek while some of its messages
\* wait for their retry time
NextDequeue ==
  \/ \E s \in SubIds : MQEnqueue(s, FallbackMaxRetries)
  \/ NackAct
  \/ \E s \in SubIds : MQDequeue(s)
  \/ \E s \in SubIds : MQPeek(s)
  \/ Tick

SpecDequeue == Init /\ [][NextDequeue]_vars

\* Publishing to a topic and to the topic named '#' while subscribers are
\* on the topic, on '#', or on both
NextWildcard ==
  \/ SubscribeAct
  \/ \E t \in UserTopics \cup {Hash} : Publish(t, "p1", "cliA", 0)
  \/ OnlineAct
  \/ DrainAct

SpecWildcard == Init /\ [][NextWildcard]_vars

\* Subscribers with a filter, online and offline, and messages whose
\* headers and payload pass or fail it
NextFilter ==
  \/ \E f \in Filters : SubscribeFiltered("cliA", <<"t1">>, f)
  \/ \E i \in FilterPublishInputs : PublishWithHeaders("t1", i.payload, "cliA", i.headers)
  \/ \E s \in SubIds : SetSubscriberOnline(s, FALSE)

SpecFilter == Init /\ [][NextFilter]_vars

\* Event handlers, one of them throwing, around the operations that emit
NextEvents ==
  \/ \E h \in Handlers : On(h)
  \/ \E h \in Handlers : Off(h)
  \/ \E n \in UserTopics : CreateTopic(n, "cliA", EmptyConfig)
  \/ \E n \in UserTopics : DeleteTopic(n)
  \/ \E t \in UserTopics : Publish(t, "p1", "cliA", 0)
  \/ \E t \in UserTopics : Subscribe("cliA", <<t>>)
  \/ \E s \in SubIds : UnsubscribeAct(s, TRUE, <<>>)
  \/ \E s \in SubIds : SetSubscriberOnline(s, FALSE)

SpecEvents == Init /\ [][NextEvents]_vars

\* Consumer groups next to the broker
NextGroup ==
  \/ \E g \in GroupNames, t \in UserTopics, st \in Strategies :
        CreateGroup(g, t, st)
  \/ \E g \in GroupNames, s \in DOMAIN subscribers :
        JoinGroup(g, s, subscribers[s].clientId)
  \/ \E s \in DOMAIN subscribers : LeaveGroup(s)
  \/ \E g \in GroupNames : GetNextSubscriber(g)
  \/ \E g \in GroupNames : DeleteGroup(g)
  \/ SubscribeAct
  \/ PublishAct

SpecGroup == Init /\ [][NextGroup]_vars

\* The consumer group manager on its own: two groups, members that join,
\* leave, send heartbeats or miss them
NextMembers ==
  \/ \E g \in AllGroupNames, st \in Strategies : CreateGroup(g, "t1", st)
  \/ \E g \in AllGroupNames, s \in MemberIds : JoinGroup(g, s, "cliA")
  \/ \E s \in MemberIds : LeaveGroup(s)
  \/ \E s \in MemberIds : Heartbeat(s)
  \/ \E g \in AllGroupNames : GetNextSubscriber(g)
  \/ \E g \in AllGroupNames : DeleteGroup(g)
  \/ CheckHeartbeats
  \/ LongTick

SpecMembers == Init /\ [][NextMembers]_vars

\* The timer of the constructor (setInterval, every 10 s) calls
\* checkHeartbeats whatever the callers of the manager do, so this step is
\* not counted in ops; a run that changes nothing is a stuttering step.
ReapHeartbeats ==
  /\ pc = Idle
  /\ \E order \in Orders(DOMAIN groups) :
       \E w2 \in {CheckHeartbeatsLoop(World, order, now)} :
          /\ w2 # World
          /\ Commit(w2)
          /\ returned' = NoReturn
          /\ ghost' = GhostEvicted(w2, GhostGroups(w2, "", 0))
          /\ UNCHANGED ops

\* Consumer groups under the periodic reaper: the timer keeps firing, so a
\* reaper run that would remove a member is eventually taken.
NextReaper ==
  \/ \E g \in AllGroupNames : CreateGroup(g, "t1", "round-robin")
  \/ \E g \in AllGroupNames, s \in MemberIds : JoinGroup(g, s, "cliA")
  \/ \E s \in MemberIds : LeaveGroup(s)
  \/ \E s \in MemberIds : Heartbeat(s)
  \/ ReapHeartbeats
  \/ LongTick

SpecReaper == Init /\ [][NextReaper]_vars /\ WF_vars(ReapHeartbeats)

\* subscribe with lists of topics that hold a name createTopic rejects
FailingTopicLists ==
  {<<n>> : n \in InvalidTopicNames}
    \cup {<<"t1", n>> : n \in InvalidTopicNames}
    \cup {<<n, "t1">> : n \in InvalidTopicNames}

NextSubscribe ==
  \/ \E l \in FailingTopicLists \cup SingleTopicLists : Subscribe("cliA", l)
  \/ UnsubscribeActs
  \/ \E n \in UserTopics : DeleteTopic(n)
  \/ \E t \in UserTopics : Publish(t, "p1", "cliA", 0)

SpecSubscribe == Init /\ [][NextSubscribe]_vars

\* groups are created over a store that may fail, joined and deleted
NextStore ==
  \/ \E g \in AllGroupNames, storeOk \in BOOLEAN :
       CreateGroupWithStore(g, "t1", "round-robin", storeOk)
  \/ \E g \in AllGroupNames, s \in MemberIds : JoinGroup(g, s, "cliA")
  \/ \E g \in AllGroupNames : DeleteGroup(g)

SpecStore == Init /\ [][NextStore]_vars

\* topics are deleted while their messages wait in subscriber queues and in
\* the dead letter queue
NextFrame ==
  \/ \E n \in UserTopics : CreateTopic(n, "cliA", CustomConfig)
  \/ \E n \in UserTopics : DeleteTopic(n)
  \/ \E t \in UserTopics : Subscribe("cliA", <<t>>)
  \/ \E s \in SubIds : SetSubscriberOnline(s, FALSE)
  \/ PublishAct
  \/ NackAct

SpecFrame == Init /\ [][NextFrame]_vars

\* two sticky groups loaded at start: members come and go while messages
\* with a handful of sticky keys are routed to either group; a subscriber
\* joins another group only after it has left the one it was in
NextSticky ==
  \/ \E g \in AllGroupNames, s \in MemberIds :
       /\ Has(memberToGroup, s) => memberToGroup[s] = g
       /\ JoinGroup(g, s, "cliA")
  \/ \E s \in MemberIds : LeaveGroup(s)
  \/ \E g \in AllGroupNames, message \in StickyMessages :
       GetNextSubscriberFor(g, message)

SpecSticky == InitSticky /\ [][NextSticky]_vars

\* the AuthManager on its own: keys are created, used, revoked and reset
\* while the clock runs past the end of their rate-limit windows
NextAuth ==
  \/ \E options \in KeyOptions : CreateApiKey("rate-client", options)
  \/ \E key \in CreatedKeyIds \cup {1} : Authenticate(key)
  \/ \E key \in CreatedKeyIds : RevokeKey(key)
  \/ \E key \in CreatedKeyIds : ResetRateLimit(key)
  \/ Tick

SpecAuth == Init /\ [][NextAuth]_vars

\* The dead-letter queue: how entries get in, and the three ways out
NextDlq ==
  \/ \E n \in UserTopics \ DOMAIN topics : CreateTopic(n, "cliA", CustomConfig)
  \/ SubscribeAct
  \/ PublishAct
  \/ OnlineAct
  \/ DrainAct
  \/ NackAct
  \/ \E m \in 1..MaxPublish : RetryDeadLetter(m)
  \/ RetryAllDeadLetters
  \/ \E m \in 1..MaxPublish : DeleteDeadLetter(m)

SpecDlq == Init /\ [][NextDlq]_vars

----------------------------------------------------------------------------
(* What the properties read off the state *)

\* the ids of the sink calls of subscriber s after the first base calls
IdsAfter(log, base) == [i \in 1..(Len(log) - base) |-> log[base + i].id]

Attempts(s, id) == Cardinality({i \in 1..Len(sinkLog[s]) : sinkLog[s][i].id = id})

Accepted(s, id) ==
  Cardinality({i \in 1..Len(sinkLog[s]) : sinkLog[s][i].id = id /\ sinkLog[s][i].ok})

DeadLettered(s, id) ==
  Cardinality({i \in 1..Len(deadLetterQueue) :
                 deadLetterQueue[i].id = id /\ deadLetterQueue[i].subscriberId = s})

\* the retry cap configured for a topic
RetryCap(topic) ==
  IF Has(topics, topic) /\ topics[topic].config.maxRetries # 0
  THEN topics[topic].config.maxRetries ELSE FallbackMaxRetries

QueueOf(q, s) == IF Has(q, s) THEN q[s] ELSE <<>>

QueueIds(q, s) == {QueueOf(q, s)[i].id : i \in 1..Len(QueueOf(q, s))}

Queued(q, s, id) == QueueOf(q, s)[FindIndex(QueueOf(q, s), LAMBDA m : m.id = id)]

\* the sink of s was called once more, with the message this publish creates
SinkSawPublish(s, topic, payload, publisherId) ==
  /\ Len(sinkLog'[s]) = Len(sinkLog[s]) + 1
  /\ SubSeq(sinkLog'[s], 1, Len(sinkLog[s])) = sinkLog[s]
  /\ LET e == sinkLog'[s][Len(sinkLog'[s])]
     IN /\ e.id = nextMsgId
        /\ e.topic = topic
        /\ e.payload = payload
        /\ e.publisherId = publisherId

\* the message this publish creates was appended to the queue of s
QueueGotPublish(s, topic, payload, publisherId) ==
  /\ Has(queues', s)
  /\ Len(queues'[s]) = Len(QueueOf(queues, s)) + 1
  /\ SubSeq(queues'[s], 1, Len(QueueOf(queues, s))) = QueueOf(queues, s)
  /\ LET m == queues'[s][Len(queues'[s])]
     IN /\ m.id = nextMsgId
        /\ m.topic = topic
        /\ m.payload = payload
        /\ m.publisherId = publisherId
        /\ m.attempts = 0

----------------------------------------------------------------------------
(* Claims *)

\* C1 (as claimed): for every subscriber and every message published to one
\* of its topics, the sink is called at most maxRetries+1 times for the
\* message and accepts it at most once, the message is dead-lettered for the
\* subscriber at most once, and never both accepted and dead-lettered.
C1_DeliveredWithinRetriesOrDeadLettered ==
  \A s \in SubIds : \A i \in 1..Len(published) :
     LET m == published[i]
     IN /\ Attempts(s, m.id) <= RetryCap(m.topic) + 1
        /\ Accepted(s, m.id) <= 1
        /\ DeadLettered(s, m.id) <= 1
        /\ ~(Accepted(s, m.id) = 1 /\ DeadLettered(s, m.id) = 1)

\* C2 (as claimed): every publish to topic t calls, exactly once and during
\* the publish, the sink of every online subscriber that subscribed to t, with
\* a message carrying the published payload, topic and publisher id.
C2_PublishCallsEverySubscribedSinkOnce ==
  [][\A t \in UserTopics, i \in PublishInputs :
       Publish(t, i.payload, i.publisherId, 0) =>
         \A s \in DOMAIN subscribers :
            (t \in subscribers[s].topics /\ subscribers[s].isOnline) =>
               SinkSawPublish(s, t, i.payload, i.publisherId)]_vars

\* C4 (as claimed): every publish reaches every subscriber that subscribed to
\* '#': its sink is called with the message, or the message is queued for it.
C4_WildcardReceivesEveryPublish ==
  [][\A t \in UserTopics, i \in PublishInputs :
       Publish(t, i.payload, i.publisherId, 0) =>
         \A s \in DOMAIN subscribers :
            Hash \in subscribers[s].topics =>
               \/ SinkSawPublish(s, t, i.payload, i.publisherId)
               \/ QueueGotPublish(s, t, i.payload, i.publisherId)]_vars

C6_QueueWithinTopicMaxQueueSize ==
  \A s \in DOMAIN queues : \A i \in 1..Len(queues[s]) :
     Has(topics, queues[s][i].topic) =>
        Len(queues[s]) <= topics[queues[s][i].topic].config.maxQueueSize

C7_AttemptsWithinMaxRetries ==
  /\ [](\A s \in DOMAIN queues : \A i \in 1..Len(queues[s]) :
          queues[s][i].attempts <= queues[s][i].maxRetries)
  /\ [][\A s \in SubIds, id \in 1..MaxPublish :
          (/\ Nack(s, id, NackReason)
           /\ Queued(queues, s, id).attempts + 1 = Queued(queues, s, id).maxRetries) =>
             /\ id \notin QueueIds(queues', s)
             /\ Len(deadLetterQueue') = Len(deadLetterQueue) + 1
             /\ LET d == deadLetterQueue'[Len(deadLetterQueue')]
                IN /\ d.id = id
                   /\ d.subscriberId = s
                   /\ d.failureReason = NackReason
                   /\ d.attempts = d.maxRetries
                   /\ d.originalTopic = Queued(queues, s, id).topic]_vars

\* C7 witness: three nacks took a message of a topic with the default retry
\* cap through attempts 1 and 2 in the queue and then to the dead-letter queue
C7_Witness ==
  \E i \in 1..Len(deadLetterQueue) :
     /\ deadLetterQueue[i].failureReason = NackReason
     /\ deadLetterQueue[i].maxRetries = DefaultTopicMaxRetries
     /\ deadLetterQueue[i].attempts = deadLetterQueue[i].maxRetries

\* the step settles the future of request c: it is pending before the step, or
\* is created by the step, and is resolved or rejected after it
Settles(c) ==
  /\ Has(promises', c)
  /\ promises'[c].state # "pending"
  /\ ~Has(promises, c) \/ promises[c].state = "pending"

\* timer, pending entry, transient subscription and reply topic of request c
TimerReleased(c) == ~Has(timers, c)

PendingReleased(c) == ~Has(pendingRequests, c)

SubscriptionReleased(c) ==
  \A s \in DOMAIN subscribers :
     ~(/\ subscribers[s].clientId = promises[c].requesterId
       /\ promises[c].replyTopic \in subscribers[s].topics)

ReplyTopicReleased(c) == promises[c].replyTopic \notin DOMAIN topics

\* C8: a request with no replier is rejected with the timeout error, not
\* before its timeout has elapsed, and in the state after that rejection its
\* pending entry is gone, its reply topic does not exist, and no subscriber of
\* the requester is subscribed to the reply topic.
C8_TimeoutRejectsAndCleansUp ==
  [][\A c \in CorrIds :
       (Settles(c) /\ promises'[c].state = "rejected") =>
          /\ promises'[c].error = TimeoutError
          /\ now' >= promises'[c].sentAt + promises'[c].timeout
          /\ PendingReleased(c)'
          /\ ReplyTopicReleased(c)'
          /\ SubscriptionReleased(c)']_vars

\* the request message of request c
IsRequestOf(m, c) ==
  /\ Has(promises, c)
  /\ m.correlationId = c
  /\ m.replyTo = promises[c].replyTopic

\* C9: a reply made with the request message of a pending request resolves
\* the request to exactly the message that reply publishes; a message on the
\* reply topic with another correlation id does not resolve it; and a request
\* is rejected only at its timeout T.
C9_ResolvesToMatchingReplyOrTimesOut ==
  /\ [][\A c \in CorrIds : \A o \in Origins :
          (/\ IsRequestOf(o, c)
           /\ promises[c].state = "pending"
           /\ Reply(o, "p2", "cliB")) =>
             /\ promises'[c].state = "resolved"
             /\ promises'[c].value =
                  [id |-> nextMsgId, topic |-> o.replyTo, payload |-> "p2",
                   timestamp |-> now, publisherId |-> "cliB", ttl |-> 0,
                   correlationId |-> c, replyTo |-> ""]]_vars
  /\ [][\A c \in CorrIds : \A o \in Origins :
          (/\ Has(promises, c)
           /\ o.replyTo = promises[c].replyTopic
           /\ o.correlationId # c
           /\ Reply(o, "p2", "cliB")) => promises'[c] = promises[c]]_vars
  /\ [](\A c \in DOMAIN promises :
          promises[c].state = "rejected" =>
             now >= promises[c].sentAt + promises[c].timeout)

\* C10: the broker settles the future of every request once, and the step
\* that settles it also clears the timer, removes the pending entry and the
\* transient subscription, and deletes the reply topic.
C10_SettledOnceAndReleasedTogether ==
  /\ [](\A c \in DOMAIN promises : promises[c].settleCalls <= 1)
  /\ [][\A c \in CorrIds :
          Settles(c) =>
             /\ TimerReleased(c)'
             /\ PendingReleased(c)'
             /\ SubscriptionReleased(c)'
             /\ ReplyTopicReleased(c)']_vars

\* the step is a publish on topic t
PublishesOn(t) ==
  /\ Len(published') = Len(published) + 1
  /\ published'[Len(published')].topic = t

\* the sink calls the members of a group have received for the group's topic
RECURSIVE MemberCalls(_, _)
MemberCalls(members, t) ==
  IF members = <<>> THEN 0
  ELSE Len(SelectSeq(sinkLog[Head(members).subscriberId],
                     LAMBDA e : e.topic = t))
       + MemberCalls(Tail(members), t)

\* every member is a registered online subscriber of the group's topic
MembersSubscribed(g) ==
  \A i \in 1..Len(groups[g].members) :
     LET s == groups[g].members[i].subscriberId
     IN /\ Has(subscribers, s)
        /\ subscribers[s].isOnline
        /\ groups[g].topic \in subscribers[s].topics
        /\ Has(memberToGroup, s) /\ memberToGroup[s] = g

\* C11: a publish on the topic of a round-robin consumer group whose members
\* are all subscribed to the topic reaches the sink of exactly one member,
\* and the members take turns in the order in which they joined.
C11_RoundRobinGroupDeliversToOneMember ==
  [][\A g \in DOMAIN groups :
       LET members == groups[g].members
           n == Len(members)
           receivers == {i \in 1..n :
              Len(sinkLog'[members[i].subscriberId]) >
                 Len(sinkLog[members[i].subscriberId])}
       IN (/\ PublishesOn(groups[g].topic)
           /\ groups[g].strategy = "round-robin"
           /\ n > 0
           /\ MembersSubscribed(g)) =>
              receivers = {(MemberCalls(members, groups[g].topic) % n) + 1}]_vars

DeadLetterIds(dlq) == [i \in 1..Len(dlq) |-> dlq[i].id]

\* position of the first dead-letter entry for message id, 0 if there is none
DeadLetterIndex(id) == FindIndex(deadLetterQueue, LAMBDA m : m.id = id)

\* C12: retryDeadLetter(id) with id in the dead-letter queue returns true,
\* removes the entry and hands the message to every subscriber of its topic
\* (attempts starting again at 0 where it is queued); with id not in the
\* dead-letter queue it returns false and changes nothing; retryAllDeadLetters
\* empties the dead-letter queue and returns the number of entries it held.
C12_RetryDeadLetterReroutesAndRemoves ==
  /\ [][\A id \in 1..MaxPublish :
          RetryDeadLetter(id) =>
             IF id \in SeqToSet(DeadLetterIds(deadLetterQueue))
             THEN /\ returned' = Returns(TRUE)
                  /\ deadLetterQueue' =
                       SeqRemoveAt(deadLetterQueue, DeadLetterIndex(id))
                  /\ \A s \in DOMAIN subscribers :
                        (/\ subscribers[s].isOnline
                         /\ SeqContains(
                              AllSubscriberIds(World,
                                 deadLetterQueue[DeadLetterIndex(id)].originalTopic),
                              s))
                        => /\ Len(sinkLog'[s]) = Len(sinkLog[s]) + 1
                           /\ sinkLog'[s][Len(sinkLog'[s])].id = id
             ELSE /\ returned' = Returns(FALSE)
                  /\ UNCHANGED <<deadLetterQueue, queues, sinkLog, subscribers>>]_vars
  /\ [][RetryAllDeadLetters =>
          /\ returned' = ReturnsNumber(Len(deadLetterQueue))
          /\ deadLetterQueue' = <<>>]_vars

\* C13: once unsubscribe(subscriberId) without a topic list has returned
\* true, the queue depth of that subscriber is 0 and the total of queued
\* messages counts only messages of registered subscribers; setting a
\* subscriber offline leaves its queue as it is.
C13_UnsubscribeDropsQueue ==
  /\ [](\A s \in ghost.gone : GetQueueDepth(World, s) = 0)
  /\ [](GetTotalQueued(World) =
          SumDepths(queues, DOMAIN queues \cap DOMAIN subscribers))
  /\ [][\A s \in SubIds :
          SetSubscriberOnline(s, FALSE) => UNCHANGED queues]_vars

\* C14: deleteTopic of an existing topic returns true and removes the topic,
\* its history and its subscriber set; deleteTopic of a name that is not a
\* topic returns false and changes nothing, and a deleteTopic repeated right
\* after any deleteTopic is such a call.
C14_DeleteTopicIdempotent ==
  [][\A n \in UserTopics : DeleteTopic(n) =>
        /\ returned' = Returns(n \in DOMAIN topics)
        /\ n \notin DOMAIN topics'
        /\ n \notin DOMAIN messageHistory'
        /\ n \notin DOMAIN topicSubscribers'
        /\ (n \notin DOMAIN topics => World' = World)
        /\ ~TMDeleteTopicReturns(World', n)
        /\ BrokerDeleteTopic(World', n) = World']_vars

\* a topic with a message in its history and a subscriber was deleted, and
\* the last call was a deleteTopic that returned false
C14_Witness ==
  /\ returned = Returns(FALSE)
  /\ published # <<>>
  /\ subscribers # EmptyMap
  /\ topics = EmptyMap
  /\ messageHistory = EmptyMap

\* C15: createTopic with a name in use throws the already-exists error, and
\* with a name that has a character outside the allowed set it throws the
\* invalid-name error; either way the whole state stays as it was: topics,
\* histories, subscriber sets, counters and configs, and no handler is
\* called with a topic:created event.
C15_CreateTopicFailsAndChangesNothing ==
  [][\A n \in UserTopics \cup InvalidTopicNames,
        c \in {CustomConfig, RetentionConfig} :
        CreateTopic(n, "cliA", c) =>
          /\ (n \in DOMAIN topics =>
                 returned' = Throws(TopicExistsError) /\ World' = World)
          /\ (n \notin DOMAIN topics /\ n \in InvalidTopicNames =>
                 returned' = Throws(InvalidNameError) /\ World' = World)]_vars

\* createTopic was refused for a name in use, with a handler listening and
\* a message in the topic's history
C15_Witness ==
  /\ returned = Throws(TopicExistsError)
  /\ eventHandlers # <<>>
  /\ Has(messageHistory, "t1") /\ messageHistory["t1"] # <<>>

\* C16: in every state, every topic's history holds at most 1000 messages,
\* none of them older than now minus the topic's messageRetention, in the
\* order in which they were published.
C16_HistoryBoundedFreshAndOrdered ==
  \A t \in DOMAIN messageHistory :
    LET history == messageHistory[t]
    IN /\ Len(history) <= MaxHistory
       /\ \A i \in 1..Len(history) :
            Has(topics, t) =>
              history[i].timestamp >= now - topics[t].config.messageRetention
       /\ \A i, j \in 1..Len(history) : i < j => history[i].id < history[j].id

\* the last n elements of a sequence, all of it when it has fewer
LastN(s, n) == SubSeq(s, Len(s) - Min(n, Len(s)) + 1, Len(s))

\* C17: getMessageHistory(topic, limit) returns the last min(limit, length)
\* messages of the topic's history, the most recent last, for every limit
\* from 0 up, and the empty list for a name that is not a topic.
C17_HistoryReturnsLastLimitMessages ==
  [][\A n \in UserTopics, l \in HistoryLimits :
        GetMessageHistory(n, l) =>
          returned' = ReturnsList(IF Has(messageHistory, n)
                                  THEN LastN(messageHistory[n], l)
                                  ELSE <<>>)]_vars

\* the step pushes the message with this id onto the dead-letter queue:
\* it becomes the last entry, and the entries before it are the old ones
\* without the oldest when the queue was at its cap
PushedToDeadLetter(id) ==
  LET kept == IF Len(deadLetterQueue) >= maxDeadLetterSize
              THEN Tail(deadLetterQueue) ELSE deadLetterQueue
  IN /\ Len(deadLetterQueue') = Len(kept) + 1
     /\ SubSeq(deadLetterQueue', 1, Len(kept)) = kept
     /\ deadLetterQueue'[Len(kept) + 1].id = id

\* the nack of this message is its last: attempts reaches maxRetries
LastNack(s, m) ==
  \E i \in 1..Len(queues[s]) :
     /\ queues[s][i].id = m
     /\ queues[s][i].attempts + 1 >= queues[s][i].maxRetries

\* C18: the dead-letter queue never holds more entries than its cap; a
\* message that fails, by its last nack or by eviction from a full queue,
\* becomes the last entry, and exactly the oldest entry is dropped when
\* the queue was at its cap, so the entries stay in failure order.
C18_DeadLetterQueueCappedFifo ==
  /\ [](Len(deadLetterQueue) <= maxDeadLetterSize)
  /\ [][\A s \in SubIds, m \in 1..MaxPublish :
          Nack(s, m, NackReason) =>
            IF LastNack(s, m) THEN PushedToDeadLetter(m)
            ELSE UNCHANGED deadLetterQueue]_vars
  /\ [][\A s \in SubIds, r \in RetryCaps :
          MQEnqueue(s, r) =>
            IF Len(GetAll(World, s)) >= maxQueueSize
            THEN PushedToDeadLetter(Head(queues[s]).id)
            ELSE UNCHANGED deadLetterQueue]_vars

\* the dead-letter queue is at a cap of two with the first failure dropped
C18_Witness ==
  /\ maxDeadLetterSize = 2
  /\ Len(deadLetterQueue) = 2
  /\ nextMsgId = 4
  /\ \A i \in 1..2 : deadLetterQueue[i].id # 1
  /\ \A s \in DOMAIN queues : queues[s] = <<>>

\* the same state with the throwing handlers not registered
Quiet(w) ==
  [w EXCEPT !.eventHandlers = SelectSeq(@, LAMBDA h : ~HandlerThrows(h))]

\* what an operation leaves behind, apart from which handlers are
\* registered and what the throwing ones have seen
Outcome(w) ==
  [w EXCEPT !.eventHandlers = <<>>,
            !.handlerLog = [h \in Handlers |->
                              IF HandlerThrows(h) THEN <<>> ELSE @[h]]]

\* C19: with a throwing handler registered, publish, subscribe, unsubscribe,
\* createTopic and deleteTopic end in the state, and with the result, they
\* end in without it, and the handlers that do not throw have been called
\* with the same events.
C19_HandlerExceptionsDoNotPropagate ==
  /\ [][\A t \in UserTopics : Publish(t, "p1", "cliA", 0) =>
          \E thr \in ThrowerSets(World, t) :
             Outcome(World') =
               Outcome(PublishOp(Quiet(World), t, "p1", "cliA", NoOptions, thr))]_vars
  /\ [][\A t \in UserTopics : Subscribe("cliA", <<t>>) =>
          Outcome(World') =
            Outcome(SubscribeOp(Quiet(World), "cliA", <<t>>, UserCallback))]_vars
  /\ [][\A s \in SubIds : UnsubscribeAct(s, TRUE, <<>>) =>
          Outcome(World') = Outcome(Unsubscribe(Quiet(World), s, TRUE, <<>>))]_vars
  /\ [][\A n \in UserTopics : CreateTopic(n, "cliA", EmptyConfig) =>
          /\ Outcome(World') =
               Outcome(BrokerCreateTopic(Quiet(World), n, "cliA", EmptyConfig))
          /\ returned' = BrokerCreateTopicReturns(Quiet(World), n)]_vars
  /\ [][\A n \in UserTopics : DeleteTopic(n) =>
          /\ Outcome(World') = Outcome(BrokerDeleteTopic(Quiet(World), n))
          /\ returned' = Returns(TMDeleteTopicReturns(Quiet(World), n))]_vars

\* the throwing handler is called first, and the other one has still
\* seen a publish to a subscriber
C19_Witness ==
  /\ eventHandlers = <<"hThrows", "hOk">>
  /\ handlerLog["hThrows"] # <<>>
  /\ \E i \in 1..Len(handlerLog["hOk"]) :
        handlerLog["hOk"][i].type = "message:delivered"
  /\ \E i \in 1..Len(handlerLog["hOk"]) :
        handlerLog["hOk"][i].type = "message:published"

\* the events a handler was called with in this step
NewEvents(h) == SubSeq(handlerLog'[h], Len(handlerLog[h]) + 1, Len(handlerLog'[h]))

\* the sink of s was called in this step
SinkCalled(s) == Len(sinkLog'[s]) = Len(sinkLog[s]) + 1

LastCall(s) == sinkLog'[s][Len(sinkLog'[s])]

\* the subscribers publish routes a message on topic t to
Recipients(t) == SeqToSet(AllSubscriberIds(World, t)) \cap DOMAIN subscribers

\* the queue of s has gained the message with this id, not yet attempted
EnqueuedFresh(s, id) ==
  /\ Has(queues', s)
  /\ Len(queues'[s]) = Len(GetAll(World, s)) + 1
  /\ SubSeq(queues'[s], 1, Len(queues'[s]) - 1) = GetAll(World, s)
  /\ queues'[s][Len(queues'[s])].id = id
  /\ queues'[s][Len(queues'[s])].attempts = 0

\* C20: when the sink of an online subscriber throws during publish, publish
\* still returns the message, the message is at the end of that
\* subscriber's queue, every handler is called with message:failed for it,
\* the subscriber's delivered count stays, and every other recipient gets
\* the message: its sink is called if it is online, its queue gains the
\* message if it is offline.
C20_SinkFailureIsQueuedAndOthersServed ==
  [][\A t \in UserTopics : Publish(t, "p1", "cliA", 0) =>
       LET id == nextMsgId
           threw == {s \in Recipients(t) : SinkCalled(s) /\ ~LastCall(s).ok}
       IN /\ published' = Append(published, published'[Len(published')])
          /\ published'[Len(published')].id = id
          /\ \A s \in threw :
               /\ EnqueuedFresh(s, id)
               /\ subscribers'[s].deliveredMessages = subscribers[s].deliveredMessages
               /\ subscribers'[s].pendingMessages = Len(queues'[s])
          /\ \A h \in SeqToSet(eventHandlers) :
               Cardinality({i \in 1..Len(NewEvents(h)) :
                             /\ NewEvents(h)[i].type = "message:failed"
                             /\ NewEvents(h)[i].messageId = id})
                 = Cardinality(threw)
          /\ \A s \in Recipients(t) \ threw :
               IF subscribers[s].isOnline
               THEN /\ SinkCalled(s) /\ LastCall(s).id = id /\ LastCall(s).ok
                    /\ subscribers'[s].deliveredMessages =
                         subscribers[s].deliveredMessages + 1
               ELSE EnqueuedFresh(s, id)]_vars

\* the sink of subscriber 1 threw on a message that is now in its queue,
\* subscriber 2 got the same message, and a handler saw message:failed
C20_Witness ==
  /\ Len(sinkLog[1]) = 1 /\ ~sinkLog[1][1].ok
  /\ Has(queues, 1) /\ Len(queues[1]) = 1 /\ queues[1][1].id = sinkLog[1][1].id
  /\ Len(sinkLog[2]) = 1 /\ sinkLog[2][1].ok /\ sinkLog[2][1].id = sinkLog[1][1].id
  /\ \E i \in 1..Len(handlerLog["hOk"]) :
        handlerLog["hOk"][i].type = "message:failed"

\* the positions in a group's member list that are flagged leader
Leaders(g) ==
  {i \in 1..Len(groups[g].members) : groups[g].members[i].isLeader}

\* C21: every group has at most one member flagged leader, and every group
\* with members has exactly one, the head of its member list.
C21_OneLeaderAtTheHead ==
  \A g \in DOMAIN groups :
     /\ Cardinality(Leaders(g)) <= 1
     /\ Len(groups[g].members) > 0 => Leaders(g) = {1}

\* a group whose first leader was evicted for a missed heartbeat and whose
\* next member was promoted
C21_Witness ==
  /\ Has(groups, "g1")
  /\ ghost.selected["g1"].all = <<1>>
  /\ 1 \in ghost.evicted
  /\ MemberList(World, "g1") = <<2>>
  /\ groups["g1"].members[1].isLeader

\* C22: each subscriber id is in the member list of at most one group, and
\* memberToGroup maps s to g exactly when s is in g's member list.
C22_MemberToGroupIsExact ==
  /\ \A s \in MemberIds :
        Cardinality({g \in DOMAIN groups : s \in SeqToSet(MemberList(World, g))}) <= 1
  /\ \A s \in MemberIds, g \in AllGroupNames :
        (Has(memberToGroup, s) /\ memberToGroup[s] = g)
          <=> s \in SeqToSet(MemberList(World, g))

\* the partitions of the member at position i of group g, as a set
PartitionsOf(g, i) == SeqToSet(groups[g].members[i].assignedPartitions)

\* C29: in every group with n >= 1 members the members' partition sets are
\* pairwise disjoint, together they are the 16 partitions 0..15, the first
\* 16 mod n members hold one partition more than the others, and another
\* rebalance changes nothing.
C29_PartitionsSpreadEvenly ==
  \A g \in DOMAIN groups :
     LET n == Len(groups[g].members)
     IN n >= 1 =>
          /\ \A i, j \in 1..n : i # j => PartitionsOf(g, i) \cap PartitionsOf(g, j) = {}
          /\ UNION {PartitionsOf(g, i) : i \in 1..n} = 0..(NumPartitions - 1)
          /\ \A i \in 1..n :
               Len(groups[g].members[i].assignedPartitions) =
                 (NumPartitions \div n) + (IF i <= NumPartitions % n THEN 1 ELSE 0)
          /\ Rebalance(World, g) = World

\* three members, the first of them with one partition more
C29_Witness ==
  /\ Has(groups, "g1")
  /\ MemberList(World, "g1") = <<1, 3, 2>>
  /\ ghost.selected["g1"].all = <<>>
  /\ Cardinality(PartitionsOf("g1", 1)) = Cardinality(PartitionsOf("g1", 2)) + 1

\* what getNextSubscriber returned for group g since its member list last
\* changed
Picks(g) ==
  SubSeq(ghost.selected[g].all, ghost.selected[g].stableFrom,
         Len(ghost.selected[g].all))

\* the position of subscriber s in the member list of g, 0 if it is not in it
PositionOf(g, s) ==
  FindIndex(MemberList(World, g), LAMBDA x : x = s)

\* C30: for a round-robin group with n members, the subscribers returned
\* while the member list stays the same are members, each is the successor
\* in list order (the head after the last) of the one returned before it,
\* so any n consecutive ones are all n members; the first one ever returned
\* by a group whose list has not changed since is the head of the list.
C30_RoundRobinVisitsMembersInOrder ==
  \A g \in DOMAIN groups :
     LET n == Len(groups[g].members)
         picks == Picks(g)
     IN (groups[g].strategy = "round-robin" /\ n >= 1) =>
          /\ \A i \in 1..Len(picks) : PositionOf(g, picks[i]) # 0
          /\ \A i \in 1..(Len(picks) - 1) :
               PositionOf(g, picks[i + 1]) = (PositionOf(g, picks[i]) % n) + 1
          /\ \A i \in 1..(Len(picks) - n + 1) :
               {picks[k] : k \in i..(i + n - 1)} = SeqToSet(MemberList(World, g))
          /\ (ghost.selected[g].stableFrom = 1 /\ Len(picks) >= 1) =>
               picks[1] = MemberList(World, g)[1]

\* a group of two members was asked three times and has come round to its
\* first member again
C30_Witness ==
  /\ Has(groups, "g1")
  /\ Len(groups["g1"].members) = 2
  /\ ghost.selected["g1"].stableFrom = 1
  /\ Len(Picks("g1")) = 3
  /\ Picks("g1")[3] = Picks("g1")[1]


\* the calls of one window of a key that reached the rate-limit check, up to
\* and including call i
ValidCallsUpTo(key, i) ==
  {j \in 1..i : /\ ghost.auth[key].calls[j].valid
                /\ ghost.auth[key].calls[j].window = ghost.auth[key].calls[i].window}

\* C23: within one rate-limit window of an API key, the first maxRequests
\* authenticate calls with the key (active and not expired) succeed and
\* every further call in that window fails with the rate-limit error; a
\* call with a revoked or expired key never succeeds.  The window that
\* opens when the previous one has expired counts from zero again, so its
\* first call succeeds.
C23_RateLimitPerWindow ==
  \A key \in DOMAIN apiKeys :
    LET calls == ghost.auth[key].calls
        maxRequests == apiKeys[key].rateLimit.maxRequests
    IN \A i \in 1..Len(calls) :
         IF ~calls[i].valid THEN ~calls[i].result.success
         ELSE IF Cardinality(ValidCallsUpTo(key, i)) <= maxRequests
              THEN calls[i].result.success
              ELSE calls[i].result = AuthFails(RateLimitError)

\* a key was refused in its first window and, that window having expired,
\* is accepted again
C23_Witness ==
  \E key \in DOMAIN apiKeys :
    LET calls == ghost.auth[key].calls
    IN \E i, j \in 1..Len(calls) :
         /\ i < j
         /\ calls[i].window = 1
         /\ calls[i].result = AuthFails(RateLimitError)
         /\ calls[j].window = 2
         /\ calls[j].opened = "expired"
         /\ calls[j].result.success
         /\ returned = ReturnsAuth(calls[j].result)


\* the message with this id in the queue of s
HasQueued(q, s, id) == id \in QueueIds(q, s)

ReadyPositions(s) ==
  {i \in 1..Len(QueueOf(queues, s)) :
     \/ ~Has(queues[s][i], "nextRetryAt")
     \/ queues[s][i].nextRetryAt <= now}

FirstReady(s) == CHOOSE i \in ReadyPositions(s) : \A j \in ReadyPositions(s) : i <= j

\* the answer the queue of s owes to dequeue and to peek
NextMessage(s) ==
  IF ReadyPositions(s) = {} THEN Undefined
  ELSE ReturnsMessage(queues[s][FirstReady(s)])

\* C25: dequeue returns the first message of the queue, in enqueue order,
\* that is not in backoff, and removes exactly that message, the others
\* keeping their order; with no such message it returns undefined and
\* changes nothing.  peek returns the same message and changes nothing.
C25_DequeueTakesTheFirstReadyMessage ==
  /\ [][\A s \in SubIds : MQDequeue(s) =>
          /\ returned' = NextMessage(s)
          /\ \A o \in DOMAIN queues \ {s} : Has(queues', o) /\ queues'[o] = queues[o]
          /\ IF ReadyPositions(s) = {} THEN queues' = queues
             ELSE queues'[s] = SeqRemoveAt(queues[s], FirstReady(s))]_vars
  /\ [][\A s \in SubIds : MQPeek(s) =>
          /\ returned' = NextMessage(s)
          /\ queues' = queues]_vars
  /\ [](\A s \in DOMAIN queues : \A i, j \in 1..Len(queues[s]) :
          i < j => queues[s][i].id < queues[s][j].id)

\* dequeue has just passed over the oldest message, which is in backoff,
\* and returned a younger one
C25_Witness ==
  \E s \in DOMAIN queues :
     /\ returned.kind = "message"
     /\ returned.message.subscriberId = s
     /\ Len(queues[s]) >= 1
     /\ Has(queues[s][1], "nextRetryAt")
     /\ queues[s][1].nextRetryAt > now
     /\ queues[s][1].id < returned.message.id
     /\ \A i \in 1..Len(queues[s]) : queues[s][i].id # returned.message.id


\* the dead-letter entries of message id of subscriber s
DeadLetterEntries(dlq, s, id) ==
  {i \in 1..Len(dlq) : dlq[i].id = id /\ dlq[i].subscriberId = s}

\* C26: a queued message sits in the queue of its own subscriber and
\* nowhere else, once; and a step after which a queued message is no longer
\* in its queue is the ack of that message or has put it into the
\* dead-letter queue.
C26_QueuedMessageLeavesByAckOrDeadLetter ==
  /\ [](\A s \in DOMAIN queues : \A i, j \in 1..Len(queues[s]) :
          /\ queues[s][i].subscriberId = s
          /\ queues[s][i].id = queues[s][j].id => i = j)
  /\ [][\A s \in SubIds, id \in 1..MaxPublish :
          (HasQueued(queues, s, id) /\ ~HasQueued(queues', s, id)) =>
             \/ Ack(s, id)
             \/ DeadLetterEntries(deadLetterQueue', s, id) #
                DeadLetterEntries(deadLetterQueue, s, id)]_vars


\* the calls this step has made to the sink of s with message id
NewSinkCalls(s, id) ==
  {i \in (Len(sinkLog[s]) + 1)..Len(sinkLog'[s]) : sinkLog'[s][i].id = id}

\* the entries of the queue of s after this step that hold message id
NewQueueEntries(s, id) ==
  {i \in 1..Len(QueueOf(queues', s)) : queues'[s][i].id = id}

\* C27: a publish on topic t, or on the topic named '#', reaches a
\* subscriber that is in the subscriber set of t and in that of '#' once:
\* its sink is called at most once with the message, and the message is
\* either accepted by the sink or in the subscriber's queue once, not both.
C27_DirectAndWildcardDeliverOnce ==
  [][\A t \in UserTopics \cup {Hash} : Publish(t, "p1", "cliA", 0) =>
       \A s \in DOMAIN subscribers :
          (/\ SeqContains(GetSubscribers(World, t), s)
           /\ SeqContains(GetSubscribers(World, Hash), s)) =>
             /\ Cardinality(NewSinkCalls(s, nextMsgId)) <= 1
             /\ Cardinality({i \in NewSinkCalls(s, nextMsgId) : sinkLog'[s][i].ok})
                + Cardinality(NewQueueEntries(s, nextMsgId)) = 1]_vars

\* a subscriber of both t1 and '#' has been sent a message published on t1
\* and a message published on '#', each of them once
C27_Witness ==
  \E s \in DOMAIN subscribers : \E m1, m2 \in 1..Len(published) :
     /\ subscribers[s].topics = {"t1", Hash}
     /\ SeqContains(GetSubscribers(World, "t1"), s)
     /\ SeqContains(GetSubscribers(World, Hash), s)
     /\ published[m1].topic = "t1"
     /\ published[m2].topic = Hash
     /\ \A m \in {m1, m2} :
          Cardinality({i \in 1..Len(sinkLog[s]) : sinkLog[s][i].id = published[m].id}) = 1


\* every header the filter declares is on the message and matches
HeadersPass(message, filter) ==
  Has(filter, "headers") =>
    \A key \in DOMAIN filter.headers :
       /\ Has(message.headers, key)
       /\ IF filter.headers[key].kind = "regexp"
          THEN message.headers[key] \in filter.headers[key].accepted
          ELSE message.headers[key] = filter.headers[key].value

\* the payload is a mapping that has every key the filter declares, with
\* the declared value
PayloadPasses(message, filter) ==
  Has(filter, "payload") =>
    /\ message.payload \in DOMAIN MappingPayloads
    /\ \A key \in DOMAIN filter.payload :
          /\ key \in DOMAIN MappingPayloads[message.payload]
          /\ MappingPayloads[message.payload][key] = filter.payload[key]

\* C28: a publish calls the sink of a subscriber with a filter, or puts the
\* message into that subscriber's queue, only if the message passes the
\* header predicates and the payload predicates of the filter; a payload
\* that is not a mapping fails a payload predicate.
C28_FilterAdmitsOnlyMatchingMessages ==
  [][\A i \in FilterPublishInputs :
       PublishWithHeaders("t1", i.payload, "cliA", i.headers) =>
         \A s \in DOMAIN subscribers :
            (/\ DOMAIN subscribers[s].filter # {}
             /\ \/ NewSinkCalls(s, nextMsgId) # {}
                \/ NewQueueEntries(s, nextMsgId) # {}) =>
               /\ HeadersPass(published'[Len(published')], subscribers[s].filter)
               /\ PayloadPasses(published'[Len(published')], subscribers[s].filter)]_vars

\* subscriberId is in the member list of the group
MemberIn(g, s) ==
  Has(groups, g) /\ MemberIndex(groups[g].members, s) # 0

\* the heartbeat the group holds for the member is more than 30 s old
StaleIn(g, s) ==
  /\ MemberIn(g, s)
  /\ now - groups[g].members[MemberIndex(groups[g].members, s)].lastHeartbeat
       > HeartbeatTimeoutMs

\* C31: the periodic reaper removes a member from a group only when the
\* heartbeat that group holds for it is more than 30 s old, a group that
\* keeps members after a reaper run has its leader at the head, and a member
\* whose heartbeat in a group is more than 30 s old eventually leaves that
\* group's member list (or heartbeats again).
C31_ReaperEvictsExactlyTheStale ==
  /\ [][ReapHeartbeats =>
          \A g \in AllGroupNames, s \in MemberIds :
             /\ (MemberIn(g, s) /\ ~MemberIn(g, s)') => StaleIn(g, s)
             /\ (Has(groups', g) /\ Len(groups'[g].members) > 0) =>
                  groups'[g].members[1].isLeader]_vars
  /\ \A g \in AllGroupNames, s \in MemberIds :
        StaleIn(g, s) ~> ~StaleIn(g, s)

\* C32: a sticky select of group g with key k returns the subscriber the
\* last select of g with k returned, as long as that subscriber is a member
\* of g, whatever was joined, left or selected in between on any group;
\* otherwise it returns members[abs(hash(k)) mod n].
C32_StickyKeyKeepsItsMember ==
  [][\A g \in AllGroupNames, message \in StickyMessages :
       (/\ GetNextSubscriberFor(g, message)
        /\ ~NextSubscriberIsNull(World, g)) =>
          LET k == GetStickyKey(message)
              members == groups[g].members
          IN returned'.number =
               IF MemberIndex(members, ghost.sticky[g][k]) # 0
               THEN ghost.sticky[g][k]
               ELSE members[AbsMod(HashCode(k), Len(members)) + 1].subscriberId]_vars

\* the sizes of the subscriber sets of the topics in names, added up
RECURSIVE SubscriberSetSizes(_)
SubscriberSetSizes(names) ==
  IF names = {} THEN 0
  ELSE LET name == CHOOSE n \in names : TRUE
       IN Len(topicSubscribers[name]) + SubscriberSetSizes(names \ {name})

\* C33: every topic has a subscriber set, its cached subscriberCount is the
\* size of that set, and the totalSubscribers metric is the sum of the sizes
\* of the subscriber sets.
C33_SubscriberCountIsTheSetSize ==
  /\ DOMAIN topics = DOMAIN topicSubscribers
  /\ \A t \in DOMAIN topics :
        topics[t].subscriberCount = Len(topicSubscribers[t])
  /\ TotalSubscribers(World) = SubscriberSetSizes(DOMAIN topicSubscribers)

\* a subscriber was removed from every topic, which left one topic without
\* subscribers, and another subscription is still counted
C33_Witness ==
  /\ ghost.gone # {}
  /\ TotalSubscribers(World) >= 1
  /\ \E t \in DOMAIN topics : topics[t].subscriberCount = 0

\* C34: deleteTopic(n) takes the topic record, the history and the
\* subscriber set of n away and leaves every other topic, every subscriber,
\* every sink, every queue (the queued messages of n included) and the dead
\* letter queue as they were.
C34_DeleteTopicLeavesQueuesAlone ==
  [][\A n \in UserTopics : DeleteTopic(n) =>
        /\ topics' = MapDelete(topics, n)
        /\ messageHistory' = MapDelete(messageHistory, n)
        /\ topicSubscribers' = MapDelete(topicSubscribers, n)
        /\ queues' = queues
        /\ deadLetterQueue' = deadLetterQueue
        /\ subscribers' = subscribers
        /\ messageCallbacks' = messageCallbacks]_vars

\* the topic t1 has just been deleted while a message of t1 waits in a
\* queue and another one lies in the dead letter queue
C34_Witness ==
  /\ returned = Returns(TRUE)
  /\ ~Has(topics, "t1")
  /\ \E s \in DOMAIN queues : \E i \in 1..Len(queues[s]) :
        queues[s][i].topic = "t1"
  /\ \E i \in 1..Len(deadLetterQueue) : deadLetterQueue[i].topic = "t1"

\* C35: createGroup of a taken name throws already-exists and leaves the
\* groups as they were; createGroup whose store call fails throws and leaves
\* the groups as they were, the name still free; otherwise the group is
\* there.
C35_CreateGroupFailsWithoutChange ==
  [][\A g \in AllGroupNames, storeOk \in BOOLEAN :
       CreateGroupWithStore(g, "t1", "round-robin", storeOk) =>
         IF Has(groups, g)
         THEN returned' = Throws(GroupExistsError) /\ groups' = groups
         ELSE IF returned' = Throws(StoreError)
         THEN groups' = groups /\ ~CreateGroupThrows(World', g)
         ELSE Has(groups', g)]_vars

\* C36: the drain of subscribe and of setSubscriberOnline(id, true) hands
\* each message to the sink at most once, whether the sink throws or not, so
\* that it ends after as many sink calls as there were messages ready at its
\* start.
C36_DrainAttemptsEachMessageOnce ==
  [][pc.op = "drain" =>
       LET offered == IdsAfter(sinkLog'[pc.sub], pc.base)
       IN /\ Len(offered) <= Len(pc.ready)
          /\ \A id \in SeqToSet(offered) :
                Cardinality({k \in 1..Len(offered) : offered[k] = id}) = 1]_vars

\* C37: a registered subscriber lists exactly the topics whose subscriber
\* set holds it.
C37_TopicsMirrorSubscriberSets ==
  \A s \in DOMAIN subscribers :
     \A t \in subscribers[s].topics \cup DOMAIN topicSubscribers :
        t \in subscribers[s].topics <=>
          (Has(topicSubscribers, t) /\ SeqContains(topicSubscribers[t], s))

\* C38: a subscribe that throws leaves no subscriber record, no sink, no
\* membership in a subscriber set and no topic behind: subscribers, sinks,
\* topics, subscriber sets and histories are as before the call.
C38_FailedSubscribeChangesNothing ==
  [][\A l \in FailingTopicLists \cup SingleTopicLists :
       (Subscribe("cliA", l) /\ returned'.kind = "error") =>
          /\ subscribers' = subscribers
          /\ messageCallbacks' = messageCallbacks
          /\ topics' = topics
          /\ topicSubscribers' = topicSubscribers
          /\ messageHistory' = messageHistory]_vars

\* C39: once a request has settled and its reply topic is gone, no later
\* step (a reply with the request message, a second reply) brings the topic
\* or a history for it back.
C39_ReplyTopicStaysGone ==
  [][\A c \in DOMAIN promises :
       (promises[c].state # "pending" /\ ReplyTopicReleased(c)) =>
          /\ ReplyTopicReleased(c)'
          /\ promises[c].replyTopic \notin DOMAIN messageHistory']_vars

\* C40: between broker operations the pendingMessages of every registered
\* subscriber is the depth of its queue.
C40_PendingMessagesIsTheQueueDepth ==
  pc = Idle =>
    \A s \in DOMAIN subscribers :
       subscribers[s].pendingMessages = GetQueueDepth(World, s)

====
